---- MODULE Spec2Model ----
(***************************************************************************)
(* Deterministic extraction subsystem of txtransformer's python-extractor: *)
(* the four typed extractors (address, date, price, pattern) and the       *)
(* DeterministicProcessor orchestrator that fans out to them.              *)
(*                                                                         *)
(* Conventions.  Texts are strings (sequences of characters).  Confidence  *)
(* scores are integers in hundredths (0.05 is 5, 1.0 is 100); every        *)
(* increment in the source is a multiple of 0.05.  Text positions are the  *)
(* source's 0-based offsets (match.start()); indices into a string are     *)
(* 1-based, so the character at offset p is SubSeq(text, p+1, p+1).        *)
(* Python's None is the value None below.                                  *)
(***************************************************************************)
EXTENDS Integers, Sequences, FiniteSets, TLC

None == "<None>"

Min(a, b) == IF a <= b THEN a ELSE b

Max(a, b) == IF a >= b THEN a ELSE b

(***************************************************************************)
(* Characters and the str methods the extractors use.                      *)
(***************************************************************************)
UpperLetters == "ABCDEFGHIJKLMNOPQRSTUVWXYZ"

LowerLetters == "abcdefghijklmnopqrstuvwxyz"

DigitChars == "0123456789"

CharsOf(s) == {SubSeq(s, i, i) : i \in 1..Len(s)}

Upper == CharsOf(UpperLetters)

Lower == CharsOf(LowerLetters)

Letter == Upper \cup Lower

Digit == CharsOf(DigitChars)

\* \w of the re module, over ASCII
WordChar == Letter \cup Digit \cup {"_"}

\* \s of the re module, over ASCII
Space == {" ", "\n", "\t", "\r"}

IndexIn(s, c) == CHOOSE i \in 1..Len(s) : SubSeq(s, i, i) = c

LowerChar(c) == IF c \in Upper THEN SubSeq(LowerLetters, IndexIn(UpperLetters, c), IndexIn(UpperLetters, c)) ELSE c

UpperChar(c) == IF c \in Lower THEN SubSeq(UpperLetters, IndexIn(LowerLetters, c), IndexIn(LowerLetters, c)) ELSE c

RECURSIVE StrLower(_)
\* str.lower()
StrLower(s) ==
    IF Len(s) <= 1 THEN LowerChar(s)
    ELSE StrLower(SubSeq(s, 1, Len(s) \div 2)) \o StrLower(SubSeq(s, Len(s) \div 2 + 1, Len(s)))

RECURSIVE StrUpper(_)
\* str.upper()
StrUpper(s) ==
    IF Len(s) <= 1 THEN UpperChar(s)
    ELSE StrUpper(SubSeq(s, 1, Len(s) \div 2)) \o StrUpper(SubSeq(s, Len(s) \div 2 + 1, Len(s)))

\* needle in hay
Contains(hay, needle) == \E i \in 1..(Len(hay) - Len(needle) + 1) : SubSeq(hay, i, i + Len(needle) - 1) = needle

\* str.strip()
StrStrip(s) ==
    LET keep == {i \in 1..Len(s) : SubSeq(s, i, i) \notin Space}
    IN  IF keep = {} THEN ""
        ELSE SubSeq(s, CHOOSE i \in keep : \A j \in keep : i <= j, CHOOSE i \in keep : \A j \in keep : i >= j)

RECURSIVE SplitLines(_)
\* text.split('\n')
SplitLines(s) ==
    LET nl == {i \in 1..Len(s) : SubSeq(s, i, i) = "\n"}
    IN  IF nl = {} THEN <<s>>
        ELSE LET k == CHOOSE i \in nl : \A j \in nl : i <= j
             IN  <<SubSeq(s, 1, k - 1)>> \o SplitLines(SubSeq(s, k + 1, Len(s)))

\* text[max(0, position - before) : min(len(text), position + after)]
Window(text, position, before, after) == SubSeq(text, Max(0, position - before) + 1, Min(Len(text), position + after))

\* any(indicator in s for indicator in indicators)
AnyIn(indicators, s) == \E k \in 1..Len(indicators) : Contains(s, indicators[k])

RECURSIVE DigitsOnly(_)
\* re.sub(r'\D', '', value)
DigitsOnly(s) ==
    IF Len(s) <= 1 THEN (IF s \in Digit THEN s ELSE "")
    ELSE DigitsOnly(SubSeq(s, 1, Len(s) \div 2)) \o DigitsOnly(SubSeq(s, Len(s) \div 2 + 1, Len(s)))

(***************************************************************************)
(* The re module: a backtracking matcher over a list of pattern nodes.     *)
(* Match tries the alternatives in the order the re module does (greedy    *)
(* repetition first, alternatives left to right) and returns the first     *)
(* match, with the spans of the capturing groups.                          *)
(***************************************************************************)
Cls(S) == [t |-> "cls", s |-> S]

NCls(S) == [t |-> "ncls", s |-> S]

Lit(str) == [t |-> "lit", s |-> str]

\* a literal under re.IGNORECASE
LitI(str) == [t |-> "liti", s |-> StrLower(str)]

Cat(a) == [t |-> "seq", a |-> a]

Alt(a) == [t |-> "alt", a |-> a]

Rep(r, lo, hi) == [t |-> "rep", r |-> r, lo |-> lo, hi |-> hi]

\* longer than any text of the model: the bound of *, + and {n,}
MaxRep == 120

Star(r) == Rep(r, 0, MaxRep)

Plus(r) == Rep(r, 1, MaxRep)

Opt(r) == Rep(r, 0, 1)

WB == [t |-> "wb"]

\* capturing group k around r
Grp(k, r) == Cat(<<[t |-> "open", k |-> k], r, [t |-> "close", k |-> k]>>)

NoMatch == [ok |-> FALSE, end |-> 0, caps |-> <<>>]

NoCaps == <<<<0, 0>>, <<0, 0>>, <<0, 0>>, <<0, 0>>, <<0, 0>>, <<0, 0>>>>

IsWordAt(text, i) == i >= 1 /\ i <= Len(text) /\ SubSeq(text, i, i) \in WordChar

\* does the one-character node r (a class or a negated class) accept c
Accepts(r, c) == IF r.t = "cls" THEN c \in r.s ELSE c \notin r.s

\* how many characters from index i on the one-character node r accepts
RunLength(text, r, i) ==
    LET stop == {j \in i..Len(text) : ~Accepts(r, SubSeq(text, j, j))}
    IN  IF stop = {} THEN Len(text) - i + 1
        ELSE (CHOOSE j \in stop : \A k \in stop : j <= k) - i

RECURSIVE Match(_, _, _, _)
RECURSIVE MatchAlt(_, _, _, _, _, _)
RECURSIVE MatchRun(_, _, _, _, _, _)
Match(text, nodes, i, caps) ==
    IF nodes = <<>> THEN [ok |-> TRUE, end |-> i, caps |-> caps]
    ELSE LET n == Head(nodes)
             rest == Tail(nodes)
         IN  CASE n.t = "cls" ->
                    IF i <= Len(text) /\ SubSeq(text, i, i) \in n.s
                    THEN Match(text, rest, i + 1, caps) ELSE NoMatch
               [] n.t = "ncls" ->
                    IF i <= Len(text) /\ SubSeq(text, i, i) \notin n.s
                    THEN Match(text, rest, i + 1, caps) ELSE NoMatch
               [] n.t = "lit" ->
                    IF i + Len(n.s) - 1 <= Len(text) /\ SubSeq(text, i, i + Len(n.s) - 1) = n.s
                    THEN Match(text, rest, i + Len(n.s), caps) ELSE NoMatch
               [] n.t = "liti" ->
                    IF i + Len(n.s) - 1 <= Len(text) /\ StrLower(SubSeq(text, i, i + Len(n.s) - 1)) = n.s
                    THEN Match(text, rest, i + Len(n.s), caps) ELSE NoMatch
               [] n.t = "seq" -> Match(text, n.a \o rest, i, caps)
               [] n.t = "alt" -> MatchAlt(text, n.a, 1, rest, i, caps)
               [] n.t = "rep" ->
                    IF n.r.t \in {"cls", "ncls"}
                    THEN MatchRun(text, rest, i, Min(n.hi, RunLength(text, n.r, i)), n.lo, caps)
                    ELSE LET more == IF n.hi > 0
                                     THEN Match(text, <<n.r, Rep(n.r, Max(n.lo - 1, 0), n.hi - 1)>> \o rest, i, caps)
                                     ELSE NoMatch
                         IN  IF more.ok THEN more
                             ELSE IF n.lo = 0 THEN Match(text, rest, i, caps) ELSE NoMatch
               [] n.t = "wb" ->
                    IF IsWordAt(text, i - 1) # IsWordAt(text, i)
                    THEN Match(text, rest, i, caps) ELSE NoMatch
               [] n.t = "open" -> Match(text, rest, i, [caps EXCEPT ![n.k] = <<i, i>>])
               [] n.t = "close" -> Match(text, rest, i, [caps EXCEPT ![n.k] = <<caps[n.k][1], i>>])

MatchAlt(text, alts, k, rest, i, caps) ==
    IF k > Len(alts) THEN NoMatch
    ELSE LET m == Match(text, <<alts[k]>> \o rest, i, caps)
         IN  IF m.ok THEN m ELSE MatchAlt(text, alts, k + 1, rest, i, caps)

\* a greedy repetition of a one-character node: n characters are taken,
\* then n - 1, ... down to lo, until the rest of the pattern matches
MatchRun(text, rest, i, n, lo, caps) ==
    IF n < lo THEN NoMatch
    ELSE LET m == Match(text, rest, i + n, caps)
         IN  IF m.ok THEN m ELSE MatchRun(text, rest, i, n - 1, lo, caps)

\* the least element of a set of positive integers, 0 if it is empty
LeastOf(S) == IF S = {} THEN 0 ELSE CHOOSE q \in S : \A r \in S : q <= r

\* the first index from p on at which pattern matches, 0 if there is none
FirstStart(text, pattern, p) == LeastOf({q \in p..Len(text) : Match(text, <<pattern>>, q, NoCaps).ok})

\* the match object of the match m found at index q
SpanOf(q, m) == [ok |-> TRUE, start |-> q - 1, end |-> m.end - 1, caps |-> m.caps]

\* the match of pattern at index q, NoMatch for q = 0
MatchFrom(text, pattern, q) == IF q = 0 THEN NoMatch ELSE SpanOf(q, Match(text, <<pattern>>, q, NoCaps))

\* the leftmost match of pattern that starts at index p or later
NextMatch(text, pattern, p) == MatchFrom(text, pattern, FirstStart(text, pattern, p))

RECURSIVE FindFrom(_, _, _)
RECURSIVE FindAfter(_, _, _)
\* the matches of pattern.finditer(text) that start at index p or later
FindFrom(text, pattern, p) == FindAfter(text, pattern, NextMatch(text, pattern, p))

\* the match m, then the matches after it: an empty match moves the scan
\* on by one character
FindAfter(text, pattern, m) ==
    IF ~m.ok THEN <<>>
    ELSE <<[start |-> m.start, end |-> m.end, caps |-> m.caps]>>
         \o FindFrom(text, pattern, IF m.end > m.start THEN m.end + 1 ELSE m.start + 2)

\* pattern.finditer(text): the non-overlapping matches, left to right
FindIter(text, pattern) == FindFrom(text, pattern, 1)

\* pattern.search(text): the leftmost match, or NoMatch
Search(text, pattern) == NextMatch(text, pattern, 1)

\* match.group(0)
Group0(text, m) == SubSeq(text, m.start + 1, m.end)

\* match.group(k), k >= 1
Group(text, m, k) == SubSeq(text, m.caps[k][1], m.caps[k][2] - 1)

(***************************************************************************)
(* Sequence helpers: list comprehensions, max(), stable list.sort.         *)
(***************************************************************************)
RECURSIVE Flatten(_)
Flatten(ss) == IF ss = <<>> THEN <<>> ELSE Head(ss) \o Flatten(Tail(ss))

\* the indices of cands whose key no earlier element has: the groups of a
\* dict of lists, in insertion order
FirstOfKey(keys) == {i \in 1..Len(keys) : \A j \in 1..(i - 1) : keys[j] # keys[i]}

\* a deduplication that keeps the first candidate seen of each key
FirstOfGroup(cands, keys, i) == i

\* max(group, key=lambda x: x.confidence): the first element of the group of
\* cands[i] that no other element of the group beats
BestOfGroup(cands, keys, i) ==
    LET group == {j \in 1..Len(cands) : keys[j] = keys[i]}
        best == {j \in group : \A k \in group : cands[k].confidence <= cands[j].confidence}
    IN  CHOOSE j \in best : \A k \in best : j <= k

\* the elements of the set of indices idx, as a sequence in increasing order
RECURSIVE InOrder(_)
InOrder(idx) ==
    IF idx = {} THEN <<>>
    ELSE LET i == CHOOSE a \in idx : \A b \in idx : a <= b IN <<i>> \o InOrder(idx \ {i})

\* the dict-of-lists deduplication the three extractors share: one
\* representative per key, the groups in insertion order
KeepBestPerKey(cands, keys) ==
    LET firsts == InOrder(FirstOfKey(keys))
    IN  [n \in 1..Len(firsts) |-> cands[BestOfGroup(cands, keys, firsts[n])]]

\* list.sort(key=lambda x: x.confidence): ascending, reverse=True left out
SortAscending(cands) ==
    LET rank(i) == Cardinality({j \in 1..Len(cands) : cands[j].confidence < cands[i].confidence})
                   + Cardinality({j \in 1..(i - 1) : cands[j].confidence = cands[i].confidence}) + 1
    IN  [n \in 1..Len(cands) |-> cands[CHOOSE i \in 1..Len(cands) : rank(i) = n]]

\* list.sort(key=lambda x: x.confidence, reverse=True): stable
SortByConfidence(cands) ==
    LET rank(i) == Cardinality({j \in 1..Len(cands) : cands[j].confidence > cands[i].confidence})
                   + Cardinality({j \in 1..(i - 1) : cands[j].confidence = cands[i].confidence}) + 1
    IN  [n \in 1..Len(cands) |-> cands[CHOOSE i \in 1..Len(cands) : rank(i) = n]]

(***************************************************************************)
(* PatternExtractor                                                        *)
(***************************************************************************)
D == Cls(Digit)

UpperOrDigit == Upper \cup Digit

\* [-.\s]
PhoneSep == {"-", "."} \cup Space

\* [^\s<>"{}|\\^`\[\]]; the backquote is left out: strings of this notation
\* cannot hold one, so no text of the model does
UrlStop == Space \cup {"<", ">", "\"", "{", "}", "|", "\\", "^", "[", "]"}

\* \b( r )\b
Token(r) == Cat(<<WB, Grp(1, r), WB>>)

\* PatternExtractor.patterns: the keys, in dict order
PatternTypes == <<"order_id", "sku", "email", "phone", "tracking", "invoice", "customer_id", "quantity", "url">>

\* PatternExtractor.patterns[pattern_type]['patterns']
PatternRegexes(pattern_type) ==
    CASE pattern_type = "order_id" -> <<
            Token(Cat(<<Rep(Cls(Upper), 2, 4), Opt(Lit("-")), Rep(D, 6, 12)>>)),
            Token(Cat(<<LitI("ORD"), Opt(Lit("-")), Rep(D, 6, 10)>>)),
            Token(Rep(D, 8, 15)),
            Token(Cat(<<Plus(Cls(Upper)), Rep(D, 6, MaxRep)>>)),
            Token(Cat(<<Rep(D, 3, 3), Lit("-"), Rep(D, 3, 3), Lit("-"), Rep(D, 4, 6)>>)) >>
      [] pattern_type = "sku" -> <<
            Token(Cat(<<Rep(Cls(Upper), 2, 5), Rep(D, 2, 8), Opt(Cls(Upper))>>)),
            Token(Cat(<<Rep(D, 4, MaxRep), Lit("-"), Rep(Cls(UpperOrDigit), 2, 8)>>)),
            Token(Cat(<<Plus(Cls(Upper)), Cls({"-", "_"}), Plus(D), Opt(Cls({"-", "_"})), Star(Cls(Upper))>>)),
            Token(Rep(D, 6, 12)),
            Token(Cat(<<Rep(Cls(Upper), 1, 3), Rep(D, 2, 6), Rep(Cls(Upper), 0, 3)>>)) >>
      [] pattern_type = "email" -> <<
            Token(Cat(<<Plus(Cls(Letter \cup Digit \cup {".", "_", "%", "+", "-"})), Lit("@"),
                        Plus(Cls(Letter \cup Digit \cup {".", "-"})), Lit("."), Rep(Cls(Letter), 2, MaxRep)>>)) >>
      [] pattern_type = "phone" -> <<
            Token(Cat(<<Opt(Lit("+")), Lit("1"), Opt(Cls(PhoneSep)), Grp(2, Rep(D, 3, 3)), Opt(Cls(PhoneSep)),
                        Grp(3, Rep(D, 3, 3)), Opt(Cls(PhoneSep)), Grp(4, Rep(D, 4, 4))>>)),
            Token(Cat(<<Lit("("), Rep(D, 3, 3), Lit(")"), Opt(Cls(Space)), Opt(Lit("-")), Opt(Cls(Space)),
                        Rep(D, 3, 3), Opt(Cls(PhoneSep)), Rep(D, 4, 4)>>)),
            Token(Cat(<<Rep(D, 3, 3), Opt(Cls(PhoneSep)), Rep(D, 3, 3), Opt(Cls(PhoneSep)), Rep(D, 4, 4)>>)),
            Token(Cat(<<Lit("+"), Rep(D, 1, 3), Opt(Cls(PhoneSep)), Rep(D, 1, 14)>>)),
            Token(Rep(D, 10, 10)) >>
      [] pattern_type = "tracking" -> <<
            Token(Cat(<<Lit("1Z"), Rep(Cls(UpperOrDigit), 16, 16)>>)),
            Token(Rep(D, 22, 22)),
            Token(Rep(D, 12, 12)),
            Token(Cat(<<Rep(Cls(Upper), 2, 2), Rep(D, 9, 9), Rep(Cls(Upper), 2, 2)>>)),
            Token(Cat(<<LitI("TRK"), Rep(D, 10, 15)>>)) >>
      [] pattern_type = "invoice" -> <<
            Token(Cat(<<LitI("INV"), Opt(Lit("-")), Rep(D, 4, 12)>>)),
            Token(Rep(D, 6, 12)),
            Token(Cat(<<Rep(Cls(Upper), 2, 4), Rep(D, 4, 10)>>)) >>
      [] pattern_type = "customer_id" -> <<
            Token(Cat(<<LitI("CUST"), Opt(Lit("-")), Rep(D, 4, 12)>>)),
            Token(Cat(<<Lit("C"), Rep(D, 6, 12)>>)),
            Token(Rep(D, 6, 15)) >>
      [] pattern_type = "quantity" -> <<
            Cat(<<WB, Grp(1, Plus(D)), Star(Cls(Space)),
                  Alt(<<Cat(<<LitI("pc"), Opt(LitI("s"))>>), Cat(<<LitI("piece"), Opt(LitI("s"))>>),
                        Cat(<<LitI("unit"), Opt(LitI("s"))>>), LitI("each"), LitI("qty"), LitI("x")>>), WB>>),
            Cat(<<WB, LitI("qty"), Opt(Lit(":")), Star(Cls(Space)), Grp(1, Plus(D)), WB>>),
            Cat(<<WB, LitI("quantity"), Opt(Lit(":")), Star(Cls(Space)), Grp(1, Plus(D)), WB>>) >>
      [] pattern_type = "url" -> <<
            Token(Cat(<<Lit("http"), Opt(Lit("s")), Lit("://"), Plus(NCls(UrlStop))>>)),
            Token(Cat(<<Lit("www."), Plus(NCls(UrlStop)), Lit("."), Rep(Cls(Letter), 2, MaxRep)>>)) >>

\* PatternExtractor.patterns[pattern_type]['confidence_base']
ConfidenceBase(pattern_type) ==
    CASE pattern_type = "order_id" -> 60
      [] pattern_type = "sku" -> 50
      [] pattern_type = "email" -> 90
      [] pattern_type = "phone" -> 70
      [] pattern_type = "tracking" -> 60
      [] pattern_type = "invoice" -> 50
      [] pattern_type = "customer_id" -> 40
      [] pattern_type = "quantity" -> 70
      [] pattern_type = "url" -> 80

\* PatternExtractor.patterns[pattern_type]['context_boost']
ContextBoost(pattern_type) ==
    CASE pattern_type = "order_id" -> 30
      [] pattern_type = "sku" -> 30
      [] pattern_type = "email" -> 10
      [] pattern_type = "phone" -> 20
      [] pattern_type = "tracking" -> 30
      [] pattern_type = "invoice" -> 40
      [] pattern_type = "customer_id" -> 40
      [] pattern_type = "quantity" -> 20
      [] pattern_type = "url" -> 10

\* PatternExtractor.context_indicators.get(pattern_type, [])
ContextIndicators(pattern_type) ==
    CASE pattern_type = "order_id" -> <<"order", "order number", "order #", "order id", "purchase order",
                                        "po number", "po #", "transaction", "reference", "confirmation">>
      [] pattern_type = "sku" -> <<"sku", "item number", "product code", "part number", "catalog",
                                   "model", "item code", "product id", "part #">>
      [] pattern_type = "email" -> <<"email", "e-mail", "contact", "from", "to", "reply", "@">>
      [] pattern_type = "phone" -> <<"phone", "tel", "telephone", "mobile", "cell", "call", "contact">>
      [] pattern_type = "tracking" -> <<"tracking", "tracking number", "shipment", "carrier", "ups", "fedex", "usps">>
      [] pattern_type = "invoice" -> <<"invoice", "invoice number", "invoice #", "bill", "billing">>
      [] pattern_type = "customer_id" -> <<"customer", "customer id", "customer number", "account", "client id">>
      [] OTHER -> <<>>

HasDigit(x) == \E i \in 1..Len(x) : SubSeq(x, i, i) \in Digit

HasAlpha(x) == \E i \in 1..Len(x) : SubSeq(x, i, i) \in Letter

\* str.isdigit()
IsDigitStr(x) == x # "" /\ \A i \in 1..Len(x) : SubSeq(x, i, i) \in Digit

RECURSIVE DigitsValue(_)
DigitsValue(x) ==
    IF x = "" THEN 0
    ELSE 10 * DigitsValue(SubSeq(x, 1, Len(x) - 1)) + (IndexIn(DigitChars, SubSeq(x, Len(x), Len(x))) - 1)

RECURSIVE StripZeros(_)
StripZeros(x) == IF Len(x) > 1 /\ SubSeq(x, 1, 1) = "0" THEN StripZeros(SubSeq(x, 2, Len(x))) ELSE x

\* int(x) of a digit string; a value of ten digits or more is reported as
\* 10^9, which every comparison of the source (with 0 and 10000) treats alike
IntOf(x) == IF Len(StripZeros(x)) > 9 THEN 1000000000 ELSE DigitsValue(StripZeros(x))

\* x.split(sep)[1], for x that contains sep
SplitSecond(x, sep) ==
    LET at == {i \in 1..Len(x) : SubSeq(x, i, i) = sep}
        first == CHOOSE i \in at : \A j \in at : i <= j
        later == {i \in at : i > first}
        stop == IF later = {} THEN Len(x) + 1 ELSE CHOOSE i \in later : \A j \in later : i <= j
    IN  SubSeq(x, first + 1, stop - 1)

\* x.rsplit(sep, 1), for x that contains sep
RSplit(x, sep) ==
    LET at == {i \in 1..Len(x) : SubSeq(x, i, i) = sep}
        last == CHOOSE i \in at : \A j \in at : i >= j
    IN  <<SubSeq(x, 1, last - 1), SubSeq(x, last + 1, Len(x))>>

\* all(validator(value) for validator in patterns[pattern_type]['format_validators']);
\* no validator raises on a string
_validate_pattern_match(value, pattern_type) ==
    CASE pattern_type = "order_id" -> Len(value) >= 6 /\ HasDigit(value)
      [] pattern_type = "sku" -> Len(value) >= 4 /\ HasDigit(value) /\ HasAlpha(value)
      [] pattern_type = "email" ->
            /\ Contains(value, "@")
            /\ Contains(SplitSecond(value, "@"), ".")
            /\ Len(SplitSecond(value, "@")) > 2
      [] pattern_type = "phone" -> Len(DigitsOnly(value)) >= 10 /\ Len(DigitsOnly(value)) <= 15
      [] pattern_type = "tracking" -> Len(value) >= 8 /\ HasDigit(value)
      [] pattern_type = "invoice" -> Len(value) >= 4 /\ HasDigit(value)
      [] pattern_type = "customer_id" -> Len(value) >= 4 /\ HasDigit(value)
      [] pattern_type = "quantity" -> IsDigitStr(value) /\ IntOf(value) > 0
      [] pattern_type = "url" -> Contains(value, ".") /\ Len(value) > 5

_validate_email_format(email) ==
    IF email = "" \/ ~Contains(email, "@") THEN FALSE
    ELSE LET local == RSplit(email, "@")[1]
             domain == RSplit(email, "@")[2]
             tld == IF Contains(domain, ".") THEN RSplit(domain, ".")[2] ELSE domain
         IN  /\ ~(local = "" \/ Len(local) > 64)
             /\ ~(domain = "" \/ ~Contains(domain, ".") \/ Len(domain) < 4)
             /\ ~(Len(tld) < 2 \/ ~(\A i \in 1..Len(tld) : SubSeq(tld, i, i) \in Letter))

\* (context or '')
OrEmpty(context) == IF context = None THEN "" ELSE context

_has_pattern_context(pattern_type, position, text, context) ==
    LET surrounding_text == StrLower(Window(text, position, 50, 50))
        full_context == StrLower(OrEmpty(context) \o " " \o surrounding_text)
    IN  AnyIn(ContextIndicators(pattern_type), full_context)

\* the type-specific adjustments of _calculate_pattern_confidence, applied
\* to the confidence after the context boost
TypeAdjusted(value, pattern_type, boosted) ==
    LET digit_count == Len(DigitsOnly(value))
    IN  CASE pattern_type = "email" ->
                IF _validate_email_format(value) THEN Min(boosted + 10, 100) ELSE boosted
          [] pattern_type = "phone" ->
                IF digit_count = 10 THEN boosted + 10
                ELSE IF digit_count = 11 /\ Len(value) >= 2 /\ SubSeq(value, 1, 2) = "+1" THEN boosted + 10
                ELSE boosted
          [] pattern_type \in {"order_id", "sku", "tracking"} ->
                boosted + (IF Len(value) >= 8 THEN 5 ELSE 0)
                        + (IF Contains(value, "-") \/ Contains(value, "_") THEN 5 ELSE 0)
          [] pattern_type = "quantity" ->
                IF ~IsDigitStr(value) THEN boosted - 30
                ELSE IF 1 <= IntOf(value) /\ IntOf(value) <= 10000 THEN boosted + 10
                ELSE IF IntOf(value) > 10000 THEN boosted - 20
                ELSE boosted
          [] OTHER -> boosted

\* the confidence_base of the type, with no boost and no adjustment
BaseConfidenceOnly(value, pattern_type, position, text, context) == ConfidenceBase(pattern_type)

_calculate_pattern_confidence(value, pattern_type, position, text, context) ==
    Min(Max(TypeAdjusted(value, pattern_type,
                         ConfidenceBase(pattern_type)
                         + (IF _has_pattern_context(pattern_type, position, text, context)
                            THEN ContextBoost(pattern_type) ELSE 0)), 0), 100)

\* a match made a candidate whatever the format validators say
UnvalidatedPattern(raw_text, value, pattern_type, context, confidence) ==
    IF confidence < 30 THEN <<>>
    ELSE <<[raw_text |-> raw_text, pattern_type |-> pattern_type, confidence |-> confidence,
            value |-> value, context |-> context]>>

\* the ExtractedPattern of a match with the given texts and confidence, or
\* nothing: the format validators and the 0.3 threshold
PatternOfValue(raw_text, value, pattern_type, context, confidence) ==
    IF ~_validate_pattern_match(value, pattern_type) THEN <<>>
    ELSE IF confidence < 30 THEN <<>>
    ELSE <<[raw_text |-> raw_text, pattern_type |-> pattern_type, confidence |-> confidence,
            value |-> value, context |-> context]>>

\* the ExtractedPattern of one match, or nothing
PatternOfMatch(text, pattern_type, context, m) ==
    PatternOfValue(Group0(text, m), Group(text, m, 1), pattern_type, context,
                   _calculate_pattern_confidence(Group(text, m, 1), pattern_type, m.start, text, context))

\* the patterns of the matches ms of one regular expression
PatternsOfMatches(text, pattern_type, context, ms) ==
    Flatten([j \in 1..Len(ms) |-> PatternOfMatch(text, pattern_type, context, ms[j])])

\* the patterns of the regular expressions of one type, in their order
PatternsOfRegexes(text, pattern_type, context, regexes) ==
    Flatten([k \in 1..Len(regexes) |-> PatternsOfMatches(text, pattern_type, context, FindIter(text, regexes[k]))])

_extract_single_pattern_type(text, pattern_type, context) ==
    PatternsOfRegexes(text, pattern_type, context, PatternRegexes(pattern_type))

\* a normalization that only strips, whatever the type
StrippedValue(value, pattern_type) == StrStrip(value)

_normalize_value(value, pattern_type) ==
    IF pattern_type = "phone" THEN DigitsOnly(value)
    ELSE IF pattern_type = "email" THEN StrStrip(StrLower(value))
    ELSE IF pattern_type \in {"order_id", "sku", "tracking", "invoice", "customer_id"} THEN StrStrip(StrUpper(value))
    ELSE StrStrip(value)

PatternKey(p) == <<p.pattern_type, _normalize_value(p.value, p.pattern_type)>>

\* extract_patterns without its deduplication step
AllPatterns(patterns) == patterns

_deduplicate_patterns(patterns) ==
    KeepBestPerKey(patterns, [i \in 1..Len(patterns) |-> PatternKey(patterns[i])])

\* the end of extract_patterns: deduplicate, then sort by confidence
SortedPatterns(extracted_patterns) == SortByConfidence(_deduplicate_patterns(extracted_patterns))

\* the pattern types asked for that the extractor knows: all of them for None
KnownTypes(pattern_types) ==
    IF pattern_types = None THEN PatternTypes
    ELSE SelectSeq(pattern_types, LAMBDA ty : \E k \in 1..Len(PatternTypes) : PatternTypes[k] = ty)

\* the patterns of the given types, type by type
PatternsOfTypes(text, types, context) ==
    Flatten([k \in 1..Len(types) |-> _extract_single_pattern_type(text, types[k], context)])

\* pattern_types is None (all the types) or a sequence of names
extract_patterns(text, pattern_types, context) ==
    SortedPatterns(PatternsOfTypes(text, KnownTypes(pattern_types), context))

(***************************************************************************)
(* DateExtractor.  A datetime is a record of its six fields.               *)
(***************************************************************************)
\* datetime.now().year when the processor is constructed
CurrentYear == 2026

\* DateExtractor.date_patterns: the keys, in dict order
DatePatternNames == <<"iso_date", "us_date", "us_date_dash", "written_date", "short_written", "european", "timestamp">>

MonthNames == <<"January", "February", "March", "April", "May", "June", "July", "August", "September", "October", "November", "December">>

MonthAbbrs == <<"Jan", "Feb", "Mar", "Apr", "May", "Jun", "Jul", "Aug", "Sep", "Oct", "Nov", "Dec">>

\* (name1|name2|...) under re.IGNORECASE
AltOfNames(names) == Alt([k \in 1..Len(names) |-> LitI(names[k])])

S1 == Plus(Cls(Space))

\* DateExtractor.date_patterns[pattern_name]
DateRegex(pattern_name) ==
    CASE pattern_name = "iso_date" -> Token(Cat(<<Rep(D, 4, 4), Lit("-"), Rep(D, 1, 2), Lit("-"), Rep(D, 1, 2)>>))
      [] pattern_name = "us_date" -> Token(Cat(<<Rep(D, 1, 2), Lit("/"), Rep(D, 1, 2), Lit("/"), Rep(D, 2, 4)>>))
      [] pattern_name = "us_date_dash" -> Token(Cat(<<Rep(D, 1, 2), Lit("-"), Rep(D, 1, 2), Lit("-"), Rep(D, 2, 4)>>))
      [] pattern_name = "written_date" ->
            Cat(<<WB, Grp(1, AltOfNames(MonthNames)), S1, Rep(D, 1, 2), Opt(Lit(",")), S1, Rep(D, 4, 4), WB>>)
      [] pattern_name = "short_written" ->
            Cat(<<WB, Grp(1, AltOfNames(MonthAbbrs)), S1, Rep(D, 1, 2), Opt(Lit(",")), S1, Rep(D, 4, 4), WB>>)
      [] pattern_name = "european" -> Token(Cat(<<Rep(D, 1, 2), Lit("."), Rep(D, 1, 2), Lit("."), Rep(D, 4, 4)>>))
      [] pattern_name = "timestamp" ->
            Token(Cat(<<Rep(D, 4, 4), Lit("-"), Rep(D, 2, 2), Lit("-"), Rep(D, 2, 2), Lit("T"),
                        Rep(D, 2, 2), Lit(":"), Rep(D, 2, 2), Lit(":"), Rep(D, 2, 2)>>))

\* DateExtractor.date_contexts: the keys, in dict order
DateTypes == <<"order", "ship", "due", "invoice", "event", "created">>

\* DateExtractor.date_contexts[date_type]
DateContexts(date_type) ==
    CASE date_type = "order" -> <<"order date", "ordered", "purchased", "bought">>
      [] date_type = "ship" -> <<"ship date", "shipped", "delivery", "sent">>
      [] date_type = "due" -> <<"due date", "payment due", "expires", "expiry">>
      [] date_type = "invoice" -> <<"invoice date", "billed", "billing date">>
      [] date_type = "event" -> <<"event date", "scheduled", "appointment">>
      [] date_type = "created" -> <<"created", "generated", "issued">>

\* the directives of datetime.strptime, as the regular expressions the
\* standard library compiles them to; group 1 is the year, 2 the month,
\* 3 the day, 4 to 6 the hour, minute and second
DirY == Grp(1, Rep(D, 4, 4))

Diry == Grp(1, Rep(D, 2, 2))

Dirm == Grp(2, Alt(<<Cat(<<Lit("1"), Cls({"0", "1", "2"})>>), Cat(<<Lit("0"), Cls(Digit \ {"0"})>>), Cls(Digit \ {"0"})>>))

Dird == Grp(3, Alt(<<Cat(<<Lit("3"), Cls({"0", "1"})>>), Cat(<<Cls({"1", "2"}), D>>),
                     Cat(<<Lit("0"), Cls(Digit \ {"0"})>>), Cls(Digit \ {"0"}), Cat(<<Lit(" "), Cls(Digit \ {"0"})>>)>>))

DirH == Grp(4, Alt(<<Cat(<<Lit("2"), Cls({"0", "1", "2", "3"})>>), Cat(<<Cls({"0", "1"}), D>>), D>>))

DirM == Grp(5, Alt(<<Cat(<<Cls({"0", "1", "2", "3", "4", "5"}), D>>), D>>))

DirS == Grp(6, Alt(<<Cat(<<Lit("6"), Cls({"0", "1"})>>), Cat(<<Cls({"0", "1", "2", "3", "4", "5"}), D>>), D>>))

DirB == Grp(2, AltOfNames(MonthNames))

Dirb == Grp(2, AltOfNames(MonthAbbrs))

\* the regular expression of a strptime format
FormatRegex(fmt) ==
    CASE fmt = "%Y-%m-%d" -> Cat(<<DirY, Lit("-"), Dirm, Lit("-"), Dird>>)
      [] fmt = "%m/%d/%Y" -> Cat(<<Dirm, Lit("/"), Dird, Lit("/"), DirY>>)
      [] fmt = "%m/%d/%y" -> Cat(<<Dirm, Lit("/"), Dird, Lit("/"), Diry>>)
      [] fmt = "%m-%d-%Y" -> Cat(<<Dirm, Lit("-"), Dird, Lit("-"), DirY>>)
      [] fmt = "%m-%d-%y" -> Cat(<<Dirm, Lit("-"), Dird, Lit("-"), Diry>>)
      [] fmt = "%d.%m.%Y" -> Cat(<<Dird, Lit("."), Dirm, Lit("."), DirY>>)
      [] fmt = "%Y-%m-%dT%H:%M:%S" ->
            Cat(<<DirY, Lit("-"), Dirm, Lit("-"), Dird, LitI("T"), DirH, Lit(":"), DirM, Lit(":"), DirS>>)
      [] fmt = "%B %d, %Y" -> Cat(<<DirB, S1, Dird, Lit(","), S1, DirY>>)
      [] fmt = "%B %d %Y" -> Cat(<<DirB, S1, Dird, S1, DirY>>)
      [] fmt = "%b %d, %Y" -> Cat(<<Dirb, S1, Dird, Lit(","), S1, DirY>>)
      [] fmt = "%b %d %Y" -> Cat(<<Dirb, S1, Dird, S1, DirY>>)

IsLeap(y) == (y % 4 = 0 /\ y % 100 # 0) \/ y % 400 = 0

DaysInMonth(y, m) ==
    IF m = 2 THEN (IF IsLeap(y) THEN 29 ELSE 28)
    ELSE IF m \in {4, 6, 9, 11} THEN 30 ELSE 31

\* the number of the month a name or an abbreviation stands for
MonthOf(names, x) == CHOOSE k \in 1..Len(names) : StrLower(names[k]) = StrLower(x)

\* the value of an optional numeric group
NumGroup(text, m, k) == IF m.caps[k] = <<0, 0>> THEN 0 ELSE IntOf(StrStrip(Group(text, m, k)))

\* no datetime: the None of _parse_with_datetime and the ValueError of
\* strptime (no datetime has year 0)
NoDate == [year |-> 0, month |-> 0, day |-> 0, hour |-> 0, minute |-> 0, second |-> 0]

\* datetime(year, month, day, hour, minute, second), NoDate for the
\* ValueError of a field out of range
DateOfFields(year, month, day, hour, minute, second) ==
    IF year < 1 \/ day > DaysInMonth(year, month) \/ second > 59 THEN NoDate
    ELSE [year |-> year, month |-> month, day |-> day, hour |-> hour, minute |-> minute, second |-> second]

\* the year of the directive of fmt; %y: 69-99 are 19xx, 00-68 are 20xx
YearOf(fmt, y0) == IF fmt \in {"%m/%d/%y", "%m-%d-%y"} THEN (IF y0 <= 68 THEN 2000 + y0 ELSE 1900 + y0) ELSE y0

\* the month of the directive of fmt: a name, an abbreviation or a number
MonthOfFormat(fmt, date_text, m) ==
    IF fmt \in {"%B %d, %Y", "%B %d %Y"} THEN MonthOf(MonthNames, Group(date_text, m, 2))
    ELSE IF fmt \in {"%b %d, %Y", "%b %d %Y"} THEN MonthOf(MonthAbbrs, Group(date_text, m, 2))
    ELSE NumGroup(date_text, m, 2)

\* the datetime of the match m of the regular expression of fmt
DateOfGroups(date_text, fmt, m) ==
    IF ~m.ok THEN NoDate                                  \* does not match format
    ELSE IF m.end # Len(date_text) + 1 THEN NoDate        \* unconverted data remains
    ELSE DateOfFields(YearOf(fmt, NumGroup(date_text, m, 1)), MonthOfFormat(fmt, date_text, m),
                      NumGroup(date_text, m, 3), NumGroup(date_text, m, 4),
                      NumGroup(date_text, m, 5), NumGroup(date_text, m, 6))

\* datetime.strptime(date_text, fmt)
strptime(date_text, fmt) == DateOfGroups(date_text, fmt, Match(date_text, <<FormatRegex(fmt)>>, 1, NoCaps))

\* formats_by_pattern of _parse_with_datetime
FormatsByPattern(pattern_name) ==
    CASE pattern_name = "iso_date" -> <<"%Y-%m-%d">>
      [] pattern_name = "us_date" -> <<"%m/%d/%Y", "%m/%d/%y">>
      [] pattern_name = "us_date_dash" -> <<"%m-%d-%Y", "%m-%d-%y">>
      [] pattern_name = "european" -> <<"%d.%m.%Y">>
      [] pattern_name = "timestamp" -> <<"%Y-%m-%dT%H:%M:%S">>
      [] pattern_name = "written_date" -> <<"%B %d, %Y", "%B %d %Y">>
      [] pattern_name = "short_written" -> <<"%b %d, %Y", "%b %d %Y">>
      [] OTHER -> <<>>

RECURSIVE TryFormats(_, _, _)
RECURSIVE ParsedOrNext(_, _, _, _)
\* the loop over the formats from the k-th on: the first that parses
TryFormats(date_text, formats, k) ==
    IF k > Len(formats) THEN NoDate
    ELSE ParsedOrNext(strptime(date_text, formats[k]), date_text, formats, k)

\* return the datetime, or continue after a ValueError
ParsedOrNext(d, date_text, formats, k) == IF d # NoDate THEN d ELSE TryFormats(date_text, formats, k + 1)

\* the first format that parses date_text, or NoDate
_parse_with_datetime(date_text, pattern_name) == TryFormats(date_text, FormatsByPattern(pattern_name), 1)

\* 1900 <= date_obj.year <= current_year + 10, current_year being the year
\* datetime.now() gives when the check runs
_is_reasonable_date(date_obj, current_year) == 1900 <= date_obj.year /\ date_obj.year <= current_year + 10

\* any indicator of any date type in context.lower()
_has_date_context(context) ==
    /\ context # None
    /\ context # ""
    /\ \E k \in 1..Len(DateTypes) : AnyIn(DateContexts(DateTypes[k]), StrLower(context))

\* pattern_bonuses of _calculate_dateparser_confidence
DateparserBonus(pattern_name) ==
    CASE pattern_name \in {"iso_date", "timestamp"} -> 30
      [] pattern_name = "written_date" -> 25
      [] pattern_name \in {"us_date", "short_written"} -> 20
      [] pattern_name = "european" -> 15
      [] OTHER -> 10

_calculate_dateparser_confidence(date_text, parsed_date, pattern_name, context, current_year) ==
    Min(50 + DateparserBonus(pattern_name)
           + (IF _is_reasonable_date(parsed_date, current_year) THEN 10 ELSE -20)
           + (IF _has_date_context(context) THEN 10 ELSE 0), 100)

\* pattern_bonuses of Date_calculate_regex_confidence
DateRegexBonus(pattern_name) ==
    CASE pattern_name \in {"iso_date", "timestamp"} -> 25
      [] pattern_name = "written_date" -> 20
      [] pattern_name \in {"us_date", "short_written"} -> 15
      [] pattern_name = "european" -> 10
      [] OTHER -> 5

\* the regex confidence with the context bonus left out
RegexConfidenceWithoutContext(date_text, parsed_date, pattern_name, context, current_year) ==
    Min(30 + DateRegexBonus(pattern_name)
           + (IF _is_reasonable_date(parsed_date, current_year) THEN 10 ELSE -30), 85)

Date_calculate_regex_confidence(date_text, parsed_date, pattern_name, context, current_year) ==
    Min(30 + DateRegexBonus(pattern_name)
           + (IF _is_reasonable_date(parsed_date, current_year) THEN 10 ELSE -30)
           + (IF _has_date_context(context) THEN 10 ELSE 0), 85)

\* date_words of _calculate_line_confidence
DateWords == <<"date", "on", "due", "expires", "scheduled">>

_calculate_line_confidence(line, parsed_date, context, current_year) ==
    Max(20 - (IF Len(line) > 50 THEN 10 ELSE 0)
           + (IF AnyIn(DateWords, StrLower(line)) THEN 20 ELSE 0)
           + (IF _is_reasonable_date(parsed_date, current_year) THEN 10 ELSE 0), 0)

\* the first date type with an indicator in the context or within 50
\* characters of the match
_determine_date_type(position, text, context) ==
    LET full_context == StrLower(OrEmpty(context) \o " " \o StrLower(Window(text, position, 50, 50)))
        hits == {k \in 1..Len(DateTypes) : AnyIn(DateContexts(DateTypes[k]), full_context)}
    IN  IF hits = {} THEN None ELSE DateTypes[CHOOSE k \in hits : \A j \in hits : k <= j]

\* the candidate of a match whose text parsed to parsed_date, or nothing
DateOfParsed(text, pattern_name, context, m, date_text, parsed_date, current_year) ==
    IF parsed_date = NoDate THEN <<>>
    ELSE << [raw_text |-> date_text,
             parsed_date |-> parsed_date,
             confidence |-> Date_calculate_regex_confidence(date_text, parsed_date, pattern_name, context, current_year),
             format_detected |-> pattern_name,
             context |-> context,
             date_type |-> _determine_date_type(m.start, text, context)] >>

\* the candidate of one match of one date pattern, if its text parses
DateOfMatch(text, pattern_name, context, m, current_year) ==
    DateOfParsed(text, pattern_name, context, m, Group(text, m, 1),
                 _parse_with_datetime(Group(text, m, 1), pattern_name), current_year)

\* the candidates of the matches ms of one date pattern
DatesOfMatches(text, pattern_name, context, ms, current_year) ==
    Flatten([n \in 1..Len(ms) |-> DateOfMatch(text, pattern_name, context, ms[n], current_year)])

\* DateExtractor._extract_with_regex
Date_extract_with_regex(text, context, current_year) ==
    Flatten([k \in 1..Len(DatePatternNames) |->
        DatesOfMatches(text, DatePatternNames[k], context, FindIter(text, DateRegex(DatePatternNames[k])), current_year)])

\* parsed_date.date()
DayKey(d) == <<d.parsed_date.year, d.parsed_date.month, d.parsed_date.day>>

_deduplicate_dates(dates) == KeepBestPerKey(dates, [i \in 1..Len(dates) |-> DayKey(dates[i])])

\* the end of extract_dates: deduplicate, then sort by confidence
SortedDates(dates) == SortByConfidence(_deduplicate_dates(dates))

\* DateExtractor.extract_dates, dateparser not installed
extract_dates(text, context, current_year) == SortedDates(Date_extract_with_regex(text, context, current_year))

(***************************************************************************)
(* PriceExtractor.  A Decimal is a record of its digits and its exponent:  *)
(* Decimal("99.99") is [digits |-> 9999, exp |-> -2].  The currency        *)
(* symbols outside ASCII are left out: no text of the model holds one.     *)
(***************************************************************************)
RECURSIVE RemoveChars(_, _)
\* s with the characters of the set cs removed: chained str.replace(c, '')
RemoveChars(s, cs) ==
    IF Len(s) <= 1 THEN (IF s \in cs THEN "" ELSE s)
    ELSE RemoveChars(SubSeq(s, 1, Len(s) \div 2), cs) \o RemoveChars(SubSeq(s, Len(s) \div 2 + 1, Len(s)), cs)

\* the index of the first occurrence of the character c in s, 0 if none
FindChar(s, c) ==
    LET at == {i \in 1..Len(s) : SubSeq(s, i, i) = c}
    IN  IF at = {} THEN 0 ELSE CHOOSE i \in at : \A j \in at : i <= j

\* Decimal(x) for x of the form digits[.digits]
DecimalOf(x) ==
    LET dot == FindChar(x, ".")
    IN  IF dot = 0 THEN [digits |-> IntOf(x), exp |-> 0]
        ELSE [digits |-> IntOf(SubSeq(x, 1, dot - 1) \o SubSeq(x, dot + 1, Len(x))), exp |-> -(Len(x) - dot)]

RECURSIVE Normalize(_)
\* the same number without trailing zeros in its digits; equal Decimals
\* (Decimal.__eq__, Decimal.__hash__) have the same normal form
Normalize(d) ==
    IF d.digits = 0 THEN [digits |-> 0, exp |-> 0]
    ELSE IF d.digits % 10 = 0 THEN Normalize([digits |-> d.digits \div 10, exp |-> d.exp + 1])
    ELSE d

RECURSIVE NumDigits(_)
NumDigits(n) == IF n < 10 THEN 1 ELSE 1 + NumDigits(n \div 10)

\* the position of the leading digit: 10^(Adjusted-1) <= d < 10^Adjusted
Adjusted(d) == NumDigits(d.digits) + d.exp

\* amount < Decimal('0.01')
BelowCent(d) == d.digits = 0 \/ Adjusted(d) < -1

\* 0.01 <= amount <= 1000000; the left operand is the float 0.01, which is
\* greater than Decimal('0.01'), so a Decimal equal to 0.01 is not in range
InReasonableRange(d) ==
    /\ ~BelowCent(d)
    /\ Normalize(d) # [digits |-> 1, exp |-> -2]
    /\ (Adjusted(d) <= 6 \/ Normalize(d) = [digits |-> 1, exp |-> 6])

\* amount > 1000000
AboveMillion(d) == d.digits # 0 /\ Adjusted(d) > 6 /\ Normalize(d) # [digits |-> 1, exp |-> 6]

\* PriceExtractor.currency_symbols, the ASCII keys in dict order
CurrencySymbols == <<"$", "CA$", "A$", "NZ$", "HK$", "NT$", "R$", "MX$">>

\* currency_symbols[symbol]
CurrencyOfSymbol(symbol) ==
    CASE symbol = "$" -> "USD"
      [] symbol = "CA$" -> "CAD"
      [] symbol = "A$" -> "AUD"
      [] symbol = "NZ$" -> "NZD"
      [] symbol = "HK$" -> "HKD"
      [] symbol = "NT$" -> "TWD"
      [] symbol = "R$" -> "BRL"
      [] symbol = "MX$" -> "MXN"
      [] OTHER -> "USD"     \* currency_symbols.get(symbol, 'USD')

\* PriceExtractor.currency_codes (Babel not installed)
CurrencyCodes == <<"USD", "EUR", "GBP", "JPY", "CHF", "CAD", "AUD", "NZD",
                   "CNY", "INR", "KRW", "SGD", "HKD", "TWD", "THB", "MYR",
                   "BRL", "MXN", "RUB", "ZAR", "SEK", "NOK", "DKK", "PLN",
                   "TRY", "ILS", "AED", "SAR", "EGP", "NGN", "PKR", "VND">>

\* region_indicators of _infer_currency_from_context, in dict order
RegionIndicators == <<
    <<"US", "USD">>, <<"USA", "USD">>, <<"UNITED STATES", "USD">>,
    <<"EU", "EUR">>, <<"EUROPE", "EUR">>, <<"EUROPEAN", "EUR">>,
    <<"UK", "GBP">>, <<"BRITAIN", "GBP">>, <<"BRITISH", "GBP">>,
    <<"JAPAN", "JPY">>, <<"JAPANESE", "JPY">>,
    <<"CHINA", "CNY">>, <<"CHINESE", "CNY">>,
    <<"INDIA", "INR">>, <<"INDIAN", "INR">>,
    <<"CANADA", "CAD">>, <<"CANADIAN", "CAD">>,
    <<"AUSTRALIA", "AUD">>, <<"AUSTRALIAN", "AUD">> >>

\* the least element of a non-empty set of integers
Least(S) == CHOOSE i \in S : \A j \in S : i <= j

_infer_currency_from_context(text, position) ==
    LET surrounding == StrUpper(Window(text, position, 100, 100))
        codes == {k \in 1..Len(CurrencyCodes) : Contains(surrounding, CurrencyCodes[k])}
        symbols == {k \in 1..Len(CurrencySymbols) : Contains(surrounding, CurrencySymbols[k])}
        regions == {k \in 1..Len(RegionIndicators) : Contains(surrounding, RegionIndicators[k][1])}
    IN  IF codes # {} THEN CurrencyCodes[Least(codes)]
        ELSE IF symbols # {} THEN CurrencyOfSymbol(CurrencySymbols[Least(symbols)])
        ELSE IF regions # {} THEN RegionIndicators[Least(regions)][2]
        ELSE "USD"

\* PriceExtractor.price_patterns: the keys, in dict order
PricePatternNames == <<"currency_symbol_amount", "amount_currency_symbol", "amount_currency_code",
                       "currency_code_amount", "written_currency", "contextual_decimal",
                       "percentage", "scientific_notation">>

\* \d{1,3}(?:,\d{3})*
Thousands == Cat(<<Rep(D, 1, 3), Star(Cat(<<Lit(","), Rep(D, 3, 3)>>))>>)

\* \d{1,3}(?:,\d{3})*(?:\.\d{1,4})?
AmountRe == Cat(<<Thousands, Opt(Cat(<<Lit("."), Rep(D, 1, 4)>>))>>)

\* currency_symbol_pattern: the multi-character symbols, then the class of
\* the single-character ones, under re.IGNORECASE
SymbolRe ==
    Alt(<<LitI("CA$"), LitI("A$"), LitI("NZ$"), LitI("HK$"), LitI("NT$"), LitI("R$"), LitI("MX$"), Cls({"$"})>>)

S0 == Star(Cls(Space))

\* \d+(?:\.\d+)?
NumberRe == Cat(<<Plus(D), Opt(Cat(<<Lit("."), Plus(D)>>))>>)

\* (dollars?|euros?|pounds?|yen|yuan|rupees?|rubles?|won|pesos?)
CurrencyWordRe ==
    Alt(<<Cat(<<LitI("dollar"), Opt(LitI("s"))>>), Cat(<<LitI("euro"), Opt(LitI("s"))>>),
          Cat(<<LitI("pound"), Opt(LitI("s"))>>), LitI("yen"), LitI("yuan"),
          Cat(<<LitI("rupee"), Opt(LitI("s"))>>), Cat(<<LitI("ruble"), Opt(LitI("s"))>>),
          LitI("won"), Cat(<<LitI("peso"), Opt(LitI("s"))>>)>>)

\* PriceExtractor.price_patterns[pattern_name]
PriceRegex(pattern_name) ==
    CASE pattern_name = "currency_symbol_amount" -> Cat(<<Grp(1, SymbolRe), S0, Grp(2, AmountRe)>>)
      [] pattern_name = "amount_currency_symbol" -> Cat(<<Grp(1, AmountRe), S0, Grp(2, SymbolRe)>>)
      [] pattern_name = "amount_currency_code" -> Cat(<<Grp(1, AmountRe), S0, Grp(2, Rep(Cls(Letter), 3, 3)), WB>>)
      [] pattern_name = "currency_code_amount" -> Cat(<<WB, Grp(1, Rep(Cls(Letter), 3, 3)), S0, Grp(2, AmountRe)>>)
      [] pattern_name = "written_currency" -> Cat(<<Grp(1, AmountRe), S0, Grp(2, CurrencyWordRe), WB>>)
      [] pattern_name = "contextual_decimal" -> Token(Cat(<<Thousands, Lit("."), Rep(D, 2, 2)>>))
      [] pattern_name = "percentage" -> Cat(<<Grp(1, NumberRe), S0, Lit("%")>>)
      [] pattern_name = "scientific_notation" ->
            Cat(<<Grp(1, NumberRe), Cls({"e", "E"}), Grp(2, Cat(<<Opt(Cls({"+", "-"})), Plus(D)>>))>>)

\* currency_map of _parse_match_groups
CurrencyOfWord(currency_word) ==
    CASE currency_word \in {"dollars", "dollar"} -> "USD"
      [] currency_word \in {"euros", "euro"} -> "EUR"
      [] currency_word \in {"pounds", "pound"} -> "GBP"
      [] currency_word = "yen" -> "JPY"
      [] currency_word = "yuan" -> "CNY"
      [] currency_word \in {"rupees", "rupee"} -> "INR"
      [] currency_word \in {"rubles", "ruble"} -> "RUB"
      [] currency_word = "won" -> "KRW"
      [] currency_word \in {"pesos", "peso"} -> "MXN"
      [] OTHER -> "USD"

\* PriceExtractor.price_contexts: the keys, in dict order
PriceTypes == <<"unit_price", "total", "tax", "discount", "shipping", "fee">>

\* PriceExtractor.price_contexts[price_type]
PriceContexts(price_type) ==
    CASE price_type = "unit_price" -> <<"price", "cost", "rate", "each", "per unit", "unit cost">>
      [] price_type = "total" -> <<"total", "amount", "sum", "grand total", "subtotal">>
      [] price_type = "tax" -> <<"tax", "vat", "gst", "sales tax", "duty">>
      [] price_type = "discount" -> <<"discount", "off", "reduction", "savings", "rebate">>
      [] price_type = "shipping" -> <<"shipping", "delivery", "freight", "postage">>
      [] price_type = "fee" -> <<"fee", "charge", "service charge", "handling">>

_has_price_context(context) ==
    /\ context # None
    /\ context # ""
    /\ \E k \in 1..Len(PriceTypes) : AnyIn(PriceContexts(PriceTypes[k]), StrLower(context))

\* the first price type with an indicator in the context or within 30
\* characters of the match
_determine_price_type(position, text, context) ==
    LET full_context == StrLower(OrEmpty(context) \o " " \o StrLower(Window(text, position, 30, 30)))
        hits == {k \in 1..Len(PriceTypes) : AnyIn(PriceContexts(PriceTypes[k]), full_context)}
    IN  IF hits = {} THEN None ELSE PriceTypes[Least(hits)]

\* pattern_bonuses of PriceExtractor._calculate_regex_confidence: none of
\* its keys is the name of a pattern of price_patterns
PriceRegexBonus(pattern_name) ==
    CASE pattern_name \in {"dollar_amount", "euro_amount", "pound_amount"} -> 30
      [] pattern_name = "decimal_with_currency" -> 25
      [] pattern_name = "amount_dollar" -> 20
      [] pattern_name = "generic_decimal" -> 10
      [] OTHER -> 5

MajorCurrencies == {"USD", "EUR", "GBP", "JPY", "CAD", "AUD"}

\* '.' in str(amount) and len(str(amount).split('.')[1]) == 2
TwoDecimalPlaces(amount) == amount.exp = -2

\* PriceExtractor._calculate_regex_confidence
Price_calculate_regex_confidence(price_text, amount, currency, pattern_name, context) ==
    Min(40 + PriceRegexBonus(pattern_name)
           + (IF Len(price_text) > 3 /\ ~IsDigitStr(price_text) THEN 5 ELSE 0)
           + (IF currency \in MajorCurrencies THEN 5 ELSE 0)
           + (IF InReasonableRange(amount) THEN 10 ELSE IF AboveMillion(amount) THEN -20 ELSE 0)
           + (IF TwoDecimalPlaces(amount) THEN 10 ELSE 0)
           + (IF _has_price_context(context) THEN 10 ELSE 0), 85)

\* re.search(r'\d+\.\d{2}$', price_text): $ is the end of the text or the
\* place before a final newline
EndsWithCents(price_text) ==
    LET n == IF price_text # "" /\ SubSeq(price_text, Len(price_text), Len(price_text)) = "\n"
             THEN Len(price_text) - 1 ELSE Len(price_text)
    IN  /\ n >= 4
        /\ SubSeq(price_text, n, n) \in Digit
        /\ SubSeq(price_text, n - 1, n - 1) \in Digit
        /\ SubSeq(price_text, n - 2, n - 2) = "."
        /\ SubSeq(price_text, n - 3, n - 3) \in Digit

\* PriceExtractor._calculate_parser_confidence; parsed_price is the Price of
\* the price-parser library: an amount and a currency, None if it has none
_calculate_parser_confidence(price_text, parsed_price, context) ==
    Min(60 + (IF parsed_price.currency # None /\ parsed_price.currency # "" THEN 20 ELSE 0)
           + (IF InReasonableRange(parsed_price.amount) THEN 10
              ELSE IF AboveMillion(parsed_price.amount) THEN -10 ELSE 0)
           + (IF EndsWithCents(price_text) THEN 10 ELSE 0)
           + (IF _has_price_context(context) THEN 10 ELSE 0), 100)

\* int(x) for x of the form [+-]digits
SignedIntOf(x) ==
    IF SubSeq(x, 1, 1) = "-" THEN -IntOf(SubSeq(x, 2, Len(x)))
    ELSE IF SubSeq(x, 1, 1) = "+" THEN IntOf(SubSeq(x, 2, Len(x)))
    ELSE IntOf(x)

\* float overflow and underflow of base * (10 ** exp)
FloatMaxExp == 309

FloatMinExp == -324

\* float('inf') as a Decimal
Infinity == [digits |-> 1, exp |-> 1000000]

\* base * (10 ** exp) of the scientific_notation branch raises
\* OverflowError: 10 ** exp is an int too large to convert to float
ScientificOverflows(text, m) == SignedIntOf(Group(text, m, 2)) >= FloatMaxExp

RECURSIVE Pow10(_)
Pow10(n) == IF n = 0 THEN 1 ELSE 10 * Pow10(n - 1)

\* the integers of at most this many digits are written out by the model
\* as str(float) writes them, "500.0"; longer ones are kept in normal form
PlainDigits == 8

\* str(x) of the float x = exact as a Decimal: no trailing zeros but the
\* ".0" of an integer
AmountOfFloat(exact) ==
    IF Adjusted(exact) > FloatMaxExp THEN Infinity
    ELSE IF exact.exp >= 0 /\ Adjusted(exact) <= PlainDigits
    THEN [digits |-> exact.digits * Pow10(exact.exp + 1), exp |-> -1]
    ELSE exact

\* Decimal(str(base * (10 ** exp))), taking the float arithmetic to be
\* exact between underflow and overflow
AmountOfBaseExp(base, exp) ==
    IF exp <= FloatMinExp THEN [digits |-> 0, exp |-> -1]
    ELSE AmountOfFloat(Normalize([digits |-> base.digits, exp |-> base.exp + exp]))

\* the amount of the scientific_notation branch of _parse_match_groups
ScientificAmount(text, m) == AmountOfBaseExp(DecimalOf(Group(text, m, 1)), SignedIntOf(Group(text, m, 2)))

\* the amount of _parse_match_groups, cleaned of ',' and ' ' and converted:
\* Decimal(amount_str.replace(',', '').replace(' ', ''))
AmountOfMatch(pattern_name, m, text) ==
    CASE pattern_name \in {"currency_symbol_amount", "currency_code_amount"} ->
            DecimalOf(RemoveChars(Group(text, m, 2), {",", " "}))
      [] pattern_name = "scientific_notation" -> ScientificAmount(text, m)
      [] OTHER -> DecimalOf(RemoveChars(Group(text, m, 1), {",", " "}))

\* the currency of _parse_match_groups
CurrencyOfMatch(pattern_name, m, text) ==
    CASE pattern_name = "currency_symbol_amount" -> CurrencyOfSymbol(Group(text, m, 1))
      [] pattern_name = "amount_currency_symbol" -> CurrencyOfSymbol(Group(text, m, 2))
      [] pattern_name = "amount_currency_code" -> StrUpper(Group(text, m, 2))
      [] pattern_name = "currency_code_amount" -> StrUpper(Group(text, m, 1))
      [] pattern_name = "written_currency" -> CurrencyOfWord(StrLower(Group(text, m, 2)))
      [] pattern_name = "percentage" -> "PCT"
      [] OTHER -> _infer_currency_from_context(text, m.start)

\* the candidate of a match with the given text, amount and currency: none
\* if the amount is not positive, or below 0.01 without a price context
PriceOfParsed(text, pattern_name, context, m, raw, amount, currency) ==
    IF amount.digits = 0 THEN <<>>
    ELSE IF BelowCent(amount) /\ ~_has_price_context(context) THEN <<>>
    ELSE << [raw_text |-> raw,
             amount |-> amount,
             currency |-> currency,
             confidence |-> Price_calculate_regex_confidence(raw, amount, currency, pattern_name, context),
             context |-> context,
             price_type |-> _determine_price_type(m.start, text, context)] >>

\* the candidate of one match of one price pattern
PriceOfMatch(text, pattern_name, context, m) ==
    PriceOfParsed(text, pattern_name, context, m, Group0(text, m),
                  AmountOfMatch(pattern_name, m, text), CurrencyOfMatch(pattern_name, m, text))

\* the matches of ms before the first one in bad
Before(ms, bad) == IF bad = {} THEN ms ELSE SubSeq(ms, 1, Least(bad) - 1)

\* the matches of ms whose conversion raises OverflowError
Overflowing(text, pattern_name, ms) ==
    {n \in 1..Len(ms) : pattern_name = "scientific_notation" /\ ScientificOverflows(text, ms[n])}

\* the matches ms the loop of _extract_with_regex gets to: those before the
\* first one whose conversion raises OverflowError, which the inner except
\* clause does not catch and the outer one ends the loop on
\* (scientific_notation is the last pattern of the loop)
BeforeOverflow(text, pattern_name, ms) == Before(ms, Overflowing(text, pattern_name, ms))

MatchesBeforeOverflow(text, pattern_name) == BeforeOverflow(text, pattern_name, FindIter(text, PriceRegex(pattern_name)))

\* the candidates of the matches ms of one price pattern
PricesOfMatches(text, pattern_name, context, ms) ==
    Flatten([n \in 1..Len(ms) |-> PriceOfMatch(text, pattern_name, context, ms[n])])

\* PriceExtractor._extract_with_regex
Price_extract_with_regex(text, context) ==
    Flatten([k \in 1..Len(PricePatternNames) |->
        PricesOfMatches(text, PricePatternNames[k], context, MatchesBeforeOverflow(text, PricePatternNames[k]))])

\* (price.amount, price.currency); equal Decimals are one dict key
PriceKey(p) == <<Normalize(p.amount), p.currency>>

_deduplicate_prices(prices) == KeepBestPerKey(prices, [i \in 1..Len(prices) |-> PriceKey(prices[i])])

\* the end of extract_prices: deduplicate, then sort by confidence
SortedPrices(prices) == SortByConfidence(_deduplicate_prices(prices))

\* PriceExtractor.extract_prices, price-parser not installed
extract_prices(text, context) == SortedPrices(Price_extract_with_regex(text, context))

(***************************************************************************)
(* AddressExtractor.  The components dict of an address is a function      *)
(* from the names of the components found to their texts.                  *)
(***************************************************************************)
\* AddressExtractor.address_patterns: the keys, in dict order
ComponentNames == <<"street_number", "street_name", "city", "state", "postal_code", "country">>

StreetSuffixRe ==
    Alt(<<LitI("Street"), LitI("St"), LitI("Avenue"), LitI("Ave"), LitI("Road"), LitI("Rd"),
          LitI("Drive"), LitI("Dr"), LitI("Lane"), LitI("Ln"), LitI("Boulevard"), LitI("Blvd"),
          LitI("Circle"), LitI("Cir"), LitI("Court"), LitI("Ct"), LitI("Place"), LitI("Pl")>>)

\* AddressExtractor.address_patterns[component_name]
AddressRegex(component_name) ==
    CASE component_name = "street_number" -> Cat(<<WB, Plus(D), WB>>)
      [] component_name = "street_name" ->
            Cat(<<WB, Plus(D), S1, Grp(1, Cat(<<Plus(Cls(Letter \cup Space)), StreetSuffixRe>>)), WB>>)
      [] component_name = "city" ->
            Cat(<<WB, Grp(1, Rep(Cls(Letter \cup Space), 2, MaxRep)), Lit(","), S0, Rep(Cls(Letter), 2, 2), S1, Rep(D, 5, 5)>>)
      [] component_name = "state" -> Cat(<<WB, Grp(1, Rep(Cls(Upper), 2, 2)), S1, Rep(D, 5, 5)>>)
      [] component_name = "postal_code" -> Token(Cat(<<Rep(D, 5, 5), Opt(Cat(<<Lit("-"), Rep(D, 4, 4)>>))>>))
      [] component_name = "country" ->
            Token(Alt(<<LitI("USA"), LitI("United States"), LitI("US"), LitI("Canada"), LitI("CA")>>))

\* AddressExtractor.address_indicators
AddressIndicators == <<"address", "street", "avenue", "road", "drive", "lane", "boulevard",
                       "ship to", "shipping", "billing", "delivery", "location", "apt", "suite">>

\* street_suffixes of _looks_like_address
StreetSuffixes == <<"street", "st", "avenue", "ave", "road", "rd", "drive", "dr", "lane", "ln">>

_looks_like_address(line) ==
    /\ HasDigit(line)
    /\ \/ AnyIn(AddressIndicators, StrLower(line))
       \/ AnyIn(StreetSuffixes, StrLower(line))
       \/ Search(line, AddressRegex("postal_code")).ok
       \/ Search(line, AddressRegex("state")).ok

\* match.group(1 if match.lastindex else 0).strip(); street_number is the
\* one pattern without a group
ComponentText(line, component_name, m) ==
    StrStrip(IF component_name = "street_number" THEN Group0(line, m) ELSE Group(line, m, 1))

\* the matches of the component patterns in the line, in dict order
ComponentMatches(line) == [k \in 1..Len(ComponentNames) |-> Search(line, AddressRegex(ComponentNames[k]))]

\* the components dict of a line whose pattern searches gave ms
ComponentsOfMatches(line, ms) ==
    [c \in {ComponentNames[k] : k \in {j \in 1..Len(ms) : ms[j].ok}} |->
        ComponentText(line, c, ms[CHOOSE k \in 1..Len(ms) : ComponentNames[k] = c])]

\* the components dict of a line
ComponentsOf(line) == ComponentsOfMatches(line, ComponentMatches(line))

\* component_bonuses of _calculate_postal_confidence
ComponentBonus(comp_type) ==
    CASE comp_type \in {"house_number", "city", "state"} -> 10
      [] comp_type \in {"road", "postcode"} -> 15
      [] comp_type = "country" -> 5
      [] OTHER -> 0

RECURSIVE BonusSum(_, _)
\* the sum of the bonuses of the component types of the set S
BonusSum(S, c) == IF S = {} THEN c ELSE LET x == CHOOSE y \in S : TRUE IN BonusSum(S \ {x}, c + ComponentBonus(x))

\* _calculate_postal_confidence without the min(confidence, 1.0)
UncappedPostalConfidence(components, raw_text) ==
    BonusSum(DOMAIN components, 40) + (IF Len(raw_text) > 30 THEN 5 ELSE 0)

\* AddressExtractor._calculate_postal_confidence; components is the dict
\* of a line libpostal parsed
_calculate_postal_confidence(components, raw_text) ==
    Min(BonusSum(DOMAIN components, 40) + (IF Len(raw_text) > 30 THEN 5 ELSE 0), 100)

RECURSIVE JoinWith(_, _)
\* sep.join(parts)
JoinWith(parts, sep) ==
    IF parts = <<>> THEN ""
    ELSE IF Len(parts) = 1 THEN parts[1]
    ELSE parts[1] \o sep \o JoinWith(Tail(parts), sep)

\* components.get(a, components.get(b, ''))
GetEither(components, a, b) ==
    IF a \in DOMAIN components THEN components[a]
    ELSE IF b \in DOMAIN components THEN components[b] ELSE ""

_normalize_address_components(components) ==
    LET has(a, b) == a \in DOMAIN components \/ b \in DOMAIN components
        city_state_zip == (IF "city" \in DOMAIN components THEN <<components["city"]>> ELSE <<>>)
                          \o (IF "state" \in DOMAIN components THEN <<components["state"]>> ELSE <<>>)
                          \o (IF has("postcode", "postal_code") THEN <<GetEither(components, "postcode", "postal_code")>> ELSE <<>>)
        ordered_parts == (IF has("house_number", "street_number") THEN <<GetEither(components, "house_number", "street_number")>> ELSE <<>>)
                         \o (IF has("road", "street_name") THEN <<GetEither(components, "road", "street_name")>> ELSE <<>>)
                         \o (IF city_state_zip # <<>> THEN <<JoinWith(city_state_zip, ", ")>> ELSE <<>>)
                         \o (IF "country" \in DOMAIN components THEN <<components["country"]>> ELSE <<>>)
    IN  JoinWith(SelectSeq(ordered_parts, LAMBDA part : StrStrip(part) # ""), ", ")

\* the candidate of a stripped line with the confidence left uncapped
UncappedAddressOfComponents(line, context, components) ==
    IF /\ DOMAIN components \cap {"street_name", "street_number"} # {}
       /\ DOMAIN components \cap {"postal_code", "city", "state"} # {}
       /\ 15 * Cardinality(DOMAIN components) > 30
    THEN << [raw_text |-> line,
             confidence |-> 15 * Cardinality(DOMAIN components),
             components |-> components,
             normalized |-> _normalize_address_components(components),
             context |-> context] >>
    ELSE <<>>

\* the candidate of a stripped line with the given components: 0.15 a
\* component, and the line is kept with a street part, a location part and
\* more than 0.3
AddressOfComponents(line, context, components) ==
    IF /\ DOMAIN components \cap {"street_name", "street_number"} # {}
       /\ DOMAIN components \cap {"postal_code", "city", "state"} # {}
       /\ 15 * Cardinality(DOMAIN components) > 30
    THEN << [raw_text |-> line,
             confidence |-> Min(15 * Cardinality(DOMAIN components), 85),
             components |-> components,
             normalized |-> _normalize_address_components(components),
             context |-> context] >>
    ELSE <<>>

\* the candidate of a stripped line in regex mode
AddressOfStripped(line, context) ==
    IF ~_looks_like_address(line) THEN <<>> ELSE AddressOfComponents(line, context, ComponentsOf(line))

\* the candidate of one line in regex mode
AddressOfLine(raw_line, context) == AddressOfStripped(StrStrip(raw_line), context)

\* the candidates of the lines, in their order
AddressesOfLines(lines, context) == Flatten([k \in 1..Len(lines) |-> AddressOfLine(lines[k], context)])

\* AddressExtractor._extract_with_regex
Address_extract_with_regex(text, context) == AddressesOfLines(SplitLines(text), context)

\* nothing is appended for any line
NothingOfLines(lines) == Flatten([k \in 1..Len(lines) |-> <<>>])

\* AddressExtractor._extract_with_postal: the method has no parameter or
\* variable named context, so building the ExtractedAddress of a parsed line
\* raises NameError, which the except clause of the loop body turns into
\* "continue"; a line that is skipped or not parsed appends nothing either
Address_extract_with_postal(text) == NothingOfLines(SplitLines(text))

\* what one line of the text appends in _extract_with_postal; parsed is the
\* set of the labels libpostal's parse_address returns for the stripped
\* line.  A line of fewer than 10 characters or one that does not look like
\* an address is skipped, a parse of at most two components appends
\* nothing, and for a longer parse the constructor call reads the undefined
\* name context: the NameError is caught by the except clause of the loop
\* body before addresses.append is reached
PostalOfLine(raw_line, parsed) ==
    IF Len(StrStrip(raw_line)) < 10 \/ ~_looks_like_address(StrStrip(raw_line)) THEN <<>>
    ELSE IF Cardinality(parsed) > 2 THEN <<>>
    ELSE <<>>

\* a match that ends where "$" matches: at the end of the string, or just
\* before a newline that ends it
AtEnd(str, m) ==
    /\ m.ok
    /\ \/ m.end = Len(str) + 1
       \/ m.end = Len(str) /\ SubSeq(str, m.end, m.end) = "\n"

\* re.match(r'^\d{5}(-\d{4})?$', postal)
PostalFormat(postal) ==
    \/ AtEnd(postal, Match(postal, <<Rep(D, 5, 5), Lit("-"), Rep(D, 4, 4)>>, 1, NoCaps))
    \/ AtEnd(postal, Match(postal, <<Rep(D, 5, 5)>>, 1, NoCaps))

\* the issues validate_address lists, in the order it appends them
AddressIssues(has_street, has_city, has_postal, postal_ok) ==
    (IF has_street THEN <<>> ELSE <<"Missing street information">>)
    \o (IF has_city THEN <<>> ELSE <<"Missing city">>)
    \o (IF ~has_postal THEN <<"Missing postal code">>
        ELSE IF postal_ok THEN <<>> ELSE <<"Invalid postal code format">>)

\* the score of validate_address, in hundredths
AddressScore(has_street, has_city, has_postal, postal_ok) ==
    (IF has_street THEN 40 ELSE 0) + (IF has_city THEN 30 ELSE 0)
    + (IF has_postal THEN 30 - (IF postal_ok THEN 0 ELSE 10) ELSE 0)

\* the result of validate_address with the postal code format not checked
ValidationOfAnyPostal(address) ==
    LET components == address.components
        has_street == DOMAIN components \cap {"road", "street_name"} # {}
        has_city == "city" \in DOMAIN components
        has_postal == DOMAIN components \cap {"postcode", "postal_code"} # {}
    IN  [valid |-> AddressScore(has_street, has_city, has_postal, TRUE) >= 60,
         score |-> AddressScore(has_street, has_city, has_postal, TRUE),
         issues |-> AddressIssues(has_street, has_city, has_postal, TRUE),
         suggestions |-> <<>>]

\* AddressExtractor.validate_address
validate_address(address) ==
    LET components == address.components
        has_street == DOMAIN components \cap {"road", "street_name"} # {}
        has_city == "city" \in DOMAIN components
        has_postal == DOMAIN components \cap {"postcode", "postal_code"} # {}
        postal_ok == PostalFormat(GetEither(components, "postcode", "postal_code"))
    IN  [valid |-> AddressScore(has_street, has_city, has_postal, postal_ok) >= 60,
         score |-> AddressScore(has_street, has_city, has_postal, postal_ok),
         issues |-> AddressIssues(has_street, has_city, has_postal, postal_ok),
         suggestions |-> <<>>]

\* address_contexts of _adjust_confidence_with_context
AddressContexts == <<"shipping", "billing", "delivery", "send to", "ship to", "address">>

_adjust_confidence_with_context(addresses, context) ==
    LET context_boost == IF AnyIn(AddressContexts, StrLower(context)) THEN 10 ELSE 0
    IN  [k \in 1..Len(addresses) |-> [addresses[k] EXCEPT !.confidence = Min(@ + context_boost, 100)]]

\* the context-based adjustment of extract_addresses: "if context"
AdjustedIfContext(addresses, context) ==
    IF context # None /\ context # "" THEN _adjust_confidence_with_context(addresses, context) ELSE addresses

\* the end of extract_addresses: adjust with the context, then sort
SortedAddresses(addresses, context) == SortByConfidence(AdjustedIfContext(addresses, context))

\* AddressExtractor.extract_addresses
extract_addresses(text, context, postal_available) ==
    SortedAddresses(IF postal_available THEN Address_extract_with_postal(text)
                    ELSE Address_extract_with_regex(text, context), context)

(***************************************************************************)
(* DeterministicProcessor.  An average of confidences is a fraction        *)
(* [num, den] of hundredths, so that no rounding is modelled.              *)
(***************************************************************************)
RECURSIVE SumConfidence(_)
\* sum(x.confidence for x in cands)
SumConfidence(cands) == IF cands = <<>> THEN 0 ELSE Head(cands).confidence + SumConfidence(Tail(cands))

Frac(n, d) == [num |-> n, den |-> d]

\* a <= b for fractions of positive denominators
FracLE(a, b) == a.num * b.den <= b.num * a.den

\* max(a, b)
FracMax(a, b) == IF FracLE(a, b) THEN b ELSE a

\* min(a, b)
FracMin(a, b) == IF FracLE(a, b) THEN a ELSE b

\* sum(confidences) / len(confidences)
MeanConfidence(cands) == Frac(SumConfidence(cands), Len(cands))

\* [p for p in patterns if p.pattern_type == pattern_type]
OfPatternType(patterns, pattern_type) == SelectSeq(patterns, LAMBDA p : p.pattern_type = pattern_type)

\* [d for d in dates if d.date_type == date_type]
OfDateType(dates, date_type) == SelectSeq(dates, LAMBDA d : d.date_type = date_type)

\* [p for p in prices if p.price_type == price_type]
OfPriceType(prices, price_type) == SelectSeq(prices, LAMBDA p : p.price_type = price_type)

\* [a for a in addresses if 'ship' in (a.context or '').lower()]
ShippingAddresses(addresses) == SelectSeq(addresses, LAMBDA a : Contains(StrLower(OrEmpty(a.context)), "ship"))

\* the keys of scores, in dict order
DocumentTypes == <<"order", "invoice", "shipping", "receipt", "booking", "unknown">>

\* scores of _infer_document_type
DocumentScores(addresses, dates, prices, patterns) ==
    [ order |-> (IF OfPatternType(patterns, "order_id") # <<>> THEN 40 ELSE 0)
                + (IF OfDateType(dates, "order") # <<>> THEN 30 ELSE 0)
                + (IF prices # <<>> THEN 20 ELSE 0),
      invoice |-> (IF OfPatternType(patterns, "invoice") # <<>> THEN 40 ELSE 0)
                  + (IF OfDateType(dates, "invoice") # <<>> THEN 30 ELSE 0)
                  + (IF OfPriceType(prices, "total") # <<>> THEN 30 ELSE 0),
      shipping |-> (IF OfPatternType(patterns, "tracking") # <<>> THEN 40 ELSE 0)
                   + (IF OfDateType(dates, "ship") # <<>> THEN 30 ELSE 0)
                   + (IF ShippingAddresses(addresses) # <<>> THEN 30 ELSE 0),
      receipt |-> (IF Len(prices) > 2 THEN 30 ELSE 0)
                  + (IF OfPriceType(prices, "tax") # <<>> THEN 20 ELSE 0),
      booking |-> 0,
      unknown |-> 0 ]

\* the last key, in dict order, of the greatest score
ArgMaxLast(scores) ==
    LET best == {k \in 1..Len(DocumentTypes) : \A j \in 1..Len(DocumentTypes) : scores[DocumentTypes[j]] <= scores[DocumentTypes[k]]}
    IN  DocumentTypes[CHOOSE k \in best : \A j \in best : j <= k]

\* max(scores, key=scores.get): the first key, in dict order, of the
\* greatest score
ArgMaxScore(scores) ==
    LET best == {k \in 1..Len(DocumentTypes) : \A j \in 1..Len(DocumentTypes) : scores[DocumentTypes[j]] <= scores[DocumentTypes[k]]}
    IN  DocumentTypes[Least(best)]

\* max(scores.values())
MaxScore(scores) == scores[ArgMaxScore(scores)]

\* the inference with "max_score <= 0.3" for "max_score < 0.3"
InferAboveThreshold(addresses, dates, prices, patterns) ==
    IF MaxScore(DocumentScores(addresses, dates, prices, patterns)) <= 30
    THEN [most_likely |-> "unknown", confidence |-> 0, scores |-> DocumentScores(addresses, dates, prices, patterns)]
    ELSE [most_likely |-> ArgMaxScore(DocumentScores(addresses, dates, prices, patterns)),
          confidence |-> MaxScore(DocumentScores(addresses, dates, prices, patterns)),
          scores |-> DocumentScores(addresses, dates, prices, patterns)]

_infer_document_type(addresses, dates, prices, patterns) ==
    LET scores == DocumentScores(addresses, dates, prices, patterns)
        max_score == scores[ArgMaxScore(scores)]
    IN  IF max_score < 30
        THEN [most_likely |-> "unknown", confidence |-> 0, scores |-> scores]
        ELSE [most_likely |-> ArgMaxScore(scores), confidence |-> max_score, scores |-> scores]

\* the overall confidence with a diversity bonus that is not capped at 0.15
UncappedBonusConfidence(addresses, dates, prices, patterns) ==
    LET n == Len(addresses) + Len(dates) + Len(prices) + Len(patterns)
        extraction_types == (IF addresses # <<>> THEN 1 ELSE 0) + (IF dates # <<>> THEN 1 ELSE 0)
                            + (IF prices # <<>> THEN 1 ELSE 0) + (IF patterns # <<>> THEN 1 ELSE 0)
    IN  IF n = 0 THEN Frac(0, 1)
        ELSE FracMin(Frac(SumConfidence(addresses \o dates \o prices \o patterns) + extraction_types * 5 * n, n),
                     Frac(100 * n, n))

\* the overall confidence without the early return for no candidates: the
\* mean of no confidences taken as 1.0
CertainOfNothing(addresses, dates, prices, patterns) ==
    LET n == Len(addresses) + Len(dates) + Len(prices) + Len(patterns)
        extraction_types == (IF addresses # <<>> THEN 1 ELSE 0) + (IF dates # <<>> THEN 1 ELSE 0)
                            + (IF prices # <<>> THEN 1 ELSE 0) + (IF patterns # <<>> THEN 1 ELSE 0)
    IN  IF n = 0 THEN Frac(100, 100)
        ELSE FracMin(Frac(SumConfidence(addresses \o dates \o prices \o patterns) + Min(extraction_types * 5, 15) * n, n),
                     Frac(100 * n, n))

_calculate_overall_confidence(addresses, dates, prices, patterns) ==
    LET all_confidences == addresses \o dates \o prices \o patterns
        extraction_types == (IF addresses # <<>> THEN 1 ELSE 0) + (IF dates # <<>> THEN 1 ELSE 0)
                            + (IF prices # <<>> THEN 1 ELSE 0) + (IF patterns # <<>> THEN 1 ELSE 0)
        diversity_bonus == Min(extraction_types * 5, 15)
        n == Len(all_confidences)
    IN  IF all_confidences = <<>> THEN Frac(0, 1)
        ELSE FracMin(Frac(SumConfidence(all_confidences) + diversity_bonus * n, n), Frac(100 * n, n))

RECURSIVE NatStr(_)
\* str(n), n >= 0
NatStr(n) == IF n < 10 THEN SubSeq(DigitChars, n + 1, n + 1) ELSE NatStr(n \div 10) \o SubSeq(DigitChars, (n % 10) + 1, (n % 10) + 1)

RECURSIVE Zeros(_)
Zeros(n) == IF n <= 0 THEN "" ELSE "0" \o Zeros(n - 1)

\* str(n) padded with zeros to two digits
TwoDigits(n) == IF n < 10 THEN "0" \o NatStr(n) ELSE NatStr(n)

\* str(amount) of a positive Decimal: positional notation when the exponent
\* is not positive and the leading digit is above the seventh decimal
\* place, scientific notation otherwise
DecimalStr(d) ==
    LET ds == NatStr(d.digits)
        leftdigits == d.exp + Len(ds)
    IN  IF d.exp <= 0 /\ leftdigits > -6
        THEN (IF d.exp = 0 THEN ds
              ELSE IF leftdigits > 0 THEN SubSeq(ds, 1, leftdigits) \o "." \o SubSeq(ds, leftdigits + 1, Len(ds))
              ELSE "0." \o Zeros(-leftdigits) \o ds)
        ELSE SubSeq(ds, 1, 1) \o (IF Len(ds) > 1 THEN "." \o SubSeq(ds, 2, Len(ds)) ELSE "")
             \o "E" \o (IF leftdigits - 1 >= 0 THEN "+" \o NatStr(leftdigits - 1) ELSE "-" \o NatStr(1 - leftdigits))

\* str(d.parsed_date.date())
DateStr(d) == Zeros(4 - Len(NatStr(d.year))) \o NatStr(d.year) \o "-" \o TwoDigits(d.month) \o "-" \o TwoDigits(d.day)

\* max(confidences), min(confidences)
MaxConfidence(cands) == CHOOSE c \in {cands[k].confidence : k \in 1..Len(cands)} : \A k \in 1..Len(cands) : cands[k].confidence <= c

MinConfidence(cands) == CHOOSE c \in {cands[k].confidence : k \in 1..Len(cands)} : \A k \in 1..Len(cands) : cands[k].confidence >= c

\* sum(1 for conf in confidences if conf > 0.8)
HighConfidence(cands) == Cardinality({k \in 1..Len(cands) : cands[k].confidence > 80})

\* AddressExtractor.get_extraction_stats, addresses not empty
AddressStats(addresses, postal_available) ==
    [ total_addresses |-> Len(addresses),
      avg_confidence |-> MeanConfidence(addresses),
      max_confidence |-> MaxConfidence(addresses),
      min_confidence |-> MinConfidence(addresses),
      high_confidence_addresses |-> HighConfidence(addresses),
      extraction_method |-> IF postal_available THEN "libpostal" ELSE "regex_fallback" ]

\* DateExtractor.get_extraction_stats, dates not empty
DateStats(dates) ==
    [ total_dates |-> Len(dates),
      avg_confidence |-> MeanConfidence(dates),
      max_confidence |-> MaxConfidence(dates),
      min_confidence |-> MinConfidence(dates),
      high_confidence_dates |-> HighConfidence(dates),
      date_types_found |-> {dates[k].date_type : k \in 1..Len(dates)} \ {None},
      extraction_method |-> "regex_fallback" ]

\* PriceExtractor.get_extraction_stats, prices not empty; the two float
\* sums of amounts (total_value_by_currency, avg_amount) are left out
PriceStats(prices) ==
    [ total_prices |-> Len(prices),
      avg_confidence |-> MeanConfidence(prices),
      max_confidence |-> MaxConfidence(prices),
      min_confidence |-> MinConfidence(prices),
      currencies_found |-> {prices[k].currency : k \in 1..Len(prices)},
      price_types_found |-> {prices[k].price_type : k \in 1..Len(prices)} \ {None},
      extraction_method |-> "regex_fallback" ]

\* PatternExtractor.get_extraction_stats, patterns not empty
PatternStats(patterns) ==
    [ total_patterns |-> Len(patterns),
      avg_confidence |-> MeanConfidence(patterns),
      max_confidence |-> MaxConfidence(patterns),
      min_confidence |-> MinConfidence(patterns),
      high_confidence_patterns |-> HighConfidence(patterns),
      pattern_types_found |-> {patterns[k].pattern_type : k \in 1..Len(patterns)},
      counts_by_type |-> [ty \in {patterns[k].pattern_type : k \in 1..Len(patterns)} |->
                            Cardinality({k \in 1..Len(patterns) : patterns[k].pattern_type = ty})] ]

\* a dict of one key if cond, the empty dict otherwise
KeyIf(cond, key, value) == IF cond THEN key :> value ELSE <<>>

\* [{"amount": str(p.amount), "currency": p.currency} for p in prices]
AmountsOf(prices) == [k \in 1..Len(prices) |-> [amount |-> DecimalStr(prices[k].amount), currency |-> prices[k].currency]]

_perform_cross_analysis(addresses, dates, prices, patterns) ==
    LET order_patterns == OfPatternType(patterns, "order_id")
        order_dates == OfDateType(dates, "order")
        shipping_addresses == ShippingAddresses(addresses)
        ship_dates == OfDateType(dates, "ship")
        tracking_patterns == OfPatternType(patterns, "tracking")
    IN  KeyIf(order_patterns # <<>> /\ order_dates # <<>>, "potential_orders",
              [ order_ids |-> [k \in 1..Len(order_patterns) |-> order_patterns[k].value],
                order_dates |-> [k \in 1..Len(order_dates) |-> DateStr(order_dates[k].parsed_date)],
                confidence |-> FracMin(MeanConfidence(order_patterns), MeanConfidence(order_dates)) ])
        @@ KeyIf(shipping_addresses # <<>> \/ ship_dates # <<>> \/ tracking_patterns # <<>>, "shipping_info",
              [ has_shipping_address |-> shipping_addresses # <<>>,
                has_ship_date |-> ship_dates # <<>>,
                has_tracking |-> tracking_patterns # <<>>,
                tracking_numbers |-> [k \in 1..Len(tracking_patterns) |-> tracking_patterns[k].value] ])
        @@ KeyIf(prices # <<>>, "financial_summary",
              [ total_amounts |-> AmountsOf(OfPriceType(prices, "total")),
                tax_amounts |-> AmountsOf(OfPriceType(prices, "tax")),
                price_count |-> Len(prices),
                currencies |-> {prices[k].currency : k \in 1..Len(prices)} ])
        @@ [document_type |-> _infer_document_type(addresses, dates, prices, patterns)]

_compile_metadata(addresses, dates, prices, patterns, original_text, postal_available) ==
    [ extraction_stats |-> [ text_length |-> Len(original_text),
                             total_extractions |-> Len(addresses) + Len(dates) + Len(prices) + Len(patterns) ] ]
    @@ KeyIf(addresses # <<>>, "address_stats", AddressStats(addresses, postal_available))
    @@ KeyIf(dates # <<>>, "date_stats", DateStats(dates))
    @@ KeyIf(prices # <<>>, "price_stats", PriceStats(prices))
    @@ KeyIf(patterns # <<>>, "pattern_stats", PatternStats(patterns))
    @@ [cross_analysis |-> _perform_cross_analysis(addresses, dates, prices, patterns)]

(***************************************************************************)
(* process_text as a state machine: the call starts the four extraction    *)
(* tasks, each finishes on a pool worker at its own time, and the          *)
(* orchestrator resumes at the gather once all have.                       *)
(***************************************************************************)
VARIABLES
    pc,                 \* "idle", "gather" (suspended at asyncio.gather) or "done"
    text,               \* the arguments of the call
    context,
    postal_available,   \* AddressExtractor.postal_available
    executor,           \* what the extractor call of each task returns
    pending,            \* the tasks started and not finished
    task_result,        \* what each finished task returned
    completed,          \* the tasks in the order they finished
    failed,             \* the tasks whose extractor call raised
    raised,             \* the exception caught by process_text, "" if none
    result,             \* the DeterministicResults returned
    returns,            \* how many results the call has produced
    fn,                 \* the function applied to arg, "" before
    arg,                \* the input of a function checked on its own
    val,                \* fn(arg)
    now,                \* the year of the clock (datetime.now().year)
    calls               \* the calls made on one processor, one after or during another

vars == <<pc, text, context, postal_available, executor, pending, task_result, completed, failed,
          raised, result, returns, fn, arg, val, now, calls>>

callVars == <<pc, text, context, postal_available, executor, pending, task_result, completed, failed,
              raised, result, returns>>

\* the clock, and the calls of a processor that serves several
envVars == <<now, calls>>

\* the scenario texts of the specification, and texts with duplicates,
\* several dates and prices, and nothing to find
OrderText == "Order #: ORD-123456789\nDate: 2024-01-15\nTotal: $99.99\nEmail: customer@example.com"

TwoAddressText == "123 Main Street, Anytown, CA 90210\n123 Main Street, Anytown, CA 90210"

QuantityText == "5 pcs\nQty: 5"

MixedText == "Shipped 01/15/2024, due 2024-01-15 or 1.2.2024\nTotal $25.50, tax 25.5 USD, fee 3 dollars\n9 Elm Rd, Troy, NY 12180"

Texts == {OrderText, TwoAddressText, QuantityText, MixedText, ""}

Contexts == {None, "Shipping price, order date"}

\* an extraction_config: its kind is "None", "list" (a value that is no
\* dict) or "dict"; a dict has the key 'patterns' or not, and the dict under
\* that key has the key 'types' or not
Config(kind, has_patterns, has_types, types) ==
    [kind |-> kind, has_patterns |-> has_patterns, has_types |-> has_types, types |-> types]

\* no extraction_config
NoConfig == Config("None", FALSE, FALSE, <<>>)

\* {}
EmptyConfig == Config("dict", FALSE, FALSE, <<>>)

\* {'patterns': {'types': T}}
TypesConfig(T) == Config("dict", TRUE, TRUE, T)

\* extraction_config: None, a dict, and a value that is no dict
ExtractionConfigs == {NoConfig, EmptyConfig, Config("list", FALSE, FALSE, <<>>)}

\* an _extract_patterns that asks for every pattern type whatever the config
EveryTypeConfigured(cfg) == None

\* (extraction_config or {}).get('patterns', {}).get('types'): the pattern
\* types _extract_patterns hands to extract_patterns, None for all of them
ConfiguredTypes(cfg) == IF cfg.kind = "dict" /\ cfg.has_patterns /\ cfg.has_types THEN cfg.types ELSE None

\* the tasks, in the order process_text lists them
Tasks == <<"addresses", "dates", "prices", "patterns">>

\* the extractor call a task hands to the worker pool (run_in_executor)
ExtractorOutput(task, t, c, cfg, p, current_year) ==
    CASE task = 1 -> extract_addresses(t, c, p)
      [] task = 2 -> extract_dates(t, c, current_year)
      [] task = 3 -> extract_prices(t, c)
      [] task = 4 -> extract_patterns(t, ConfiguredTypes(cfg), c)

\* a task result that is no list (None)
NoList == <<[none |-> TRUE]>>

\* a wrapper whose except clause returns nothing
ExtractTaskNoList(output, fault) == IF fault THEN NoList ELSE output

\* _extract_addresses, _extract_dates, _extract_prices, _extract_patterns:
\* the output of the extractor, or [] if the call raised
ExtractTask(output, fault) == IF fault THEN <<>> ELSE output

\* a wait that resumes when the first task has finished
\* (asyncio.wait with FIRST_COMPLETED)
FirstDone(stillPending) == stillPending # 1..4

\* await asyncio.gather(*tasks): resumes when no task is pending
AllDone(stillPending) == stillPending = {}

\* results of asyncio.gather: in the order of the tasks passed, whatever the
\* order they finished in
GatherResults(results, order) == results

\* an except branch that reports the failure under another key
ErrorResultsOtherKey(e) ==
    [addresses |-> <<>>, dates |-> <<>>, prices |-> <<>>, patterns |-> <<>>,
     metadata |-> [message |-> e], confidence |-> [num |-> 0, den |-> 1]]

\* the except branch of process_text
ErrorResults(e) ==
    [addresses |-> <<>>, dates |-> <<>>, prices |-> <<>>, patterns |-> <<>>,
     metadata |-> [error |-> e], confidence |-> Frac(0, 1)]

\* no result yet
NoResults ==
    [addresses |-> <<>>, dates |-> <<>>, prices |-> <<>>, patterns |-> <<>>,
     metadata |-> <<>>, confidence |-> Frac(0, 1)]

Init ==
    /\ pc = "idle"
    /\ text = ""
    /\ context = None
    /\ postal_available = FALSE
    /\ executor = [i \in 1..4 |-> <<>>]
    /\ pending = {}
    /\ task_result = [i \in 1..4 |-> <<>>]
    /\ completed = <<>>
    /\ failed = {}
    /\ raised = ""
    /\ result = NoResults
    /\ returns = 0
    /\ fn = ""
    /\ arg = <<>>
    /\ val = <<>>
    /\ now = CurrentYear
    /\ calls = <<>>

\* the exception process_text raises before it creates a task, "" if none:
\* len(text) of the first log line raises TypeError for a text that is None,
\* config.get raises AttributeError for a config that is no dict
EarlyError(t, cfg) ==
    IF t = None THEN "object of type 'NoneType' has no len()"
    ELSE IF cfg.kind = "list" THEN "'list' object has no attribute 'get'"
    ELSE ""

\* process_text up to the gather; the extractors are functions of the
\* arguments the tasks are created with
Start(t, c, cfg, p) ==
    /\ pc = "idle"
    /\ text' = t
    /\ context' = c
    /\ postal_available' = p
    /\ IF EarlyError(t, cfg) # ""
       THEN /\ raised' = EarlyError(t, cfg)
            /\ result' = ErrorResults(EarlyError(t, cfg))
            /\ returns' = returns + 1
            /\ pc' = "done"
            /\ UNCHANGED <<executor, pending>>
       ELSE /\ executor' = [i \in 1..4 |-> ExtractorOutput(i, t, c, cfg, p, now)]
            /\ pending' = 1..4
            /\ pc' = "gather"
            /\ UNCHANGED <<raised, result, returns>>
    /\ UNCHANGED <<task_result, completed, failed, fn, arg, val, now, calls>>

\* one extraction task runs to its end on a worker
FinishTask(i, fault) ==
    /\ pc = "gather"
    /\ i \in pending
    /\ task_result' = [task_result EXCEPT ![i] = ExtractTask(executor[i], fault)]
    /\ pending' = pending \ {i}
    /\ completed' = Append(completed, i)
    /\ failed' = IF fault THEN failed \cup {i} ELSE failed
    /\ UNCHANGED <<pc, text, context, postal_available, executor, raised, result, returns, fn, arg, val, now, calls>>

_extract_addresses ==
    /\ 1 \in pending
    /\ \E fault \in BOOLEAN : FinishTask(1, fault)

_extract_dates ==
    /\ 2 \in pending
    /\ \E fault \in BOOLEAN : FinishTask(2, fault)

_extract_prices ==
    /\ 3 \in pending
    /\ \E fault \in BOOLEAN : FinishTask(3, fault)

_extract_patterns ==
    /\ 4 \in pending
    /\ \E fault \in BOOLEAN : FinishTask(4, fault)

\* the exceptions the environment may raise after the gather
LateFaults == {"", "metadata compilation failed", "confidence computation failed"}

\* process_text from the gather on: a result that is no list makes len()
\* raise in _compile_metadata; any exception ends in the except branch
Gather(fault) ==
    /\ pc = "gather"
    /\ AllDone(pending)
    /\ LET results == GatherResults(task_result, completed)
           exc == IF \E i \in 1..4 : results[i] = NoList THEN "object of type 'NoneType' has no len()" ELSE fault
       IN  /\ raised' = exc
           /\ result' = IF exc # "" THEN ErrorResults(exc)
                        ELSE [addresses |-> results[1], dates |-> results[2],
                              prices |-> results[3], patterns |-> results[4],
                              metadata |-> _compile_metadata(results[1], results[2], results[3], results[4], text, postal_available),
                              confidence |-> _calculate_overall_confidence(results[1], results[2], results[3], results[4])]
    /\ returns' = returns + 1
    /\ pc' = "done"
    /\ UNCHANGED <<text, context, postal_available, executor, pending, task_result, completed, failed, fn, arg, val, now, calls>>

Next ==
    \/ \E t \in Texts \cup {None}, c \in Contexts, cfg \in ExtractionConfigs, p \in BOOLEAN : Start(t, c, cfg, p)
    \/ _extract_addresses
    \/ _extract_dates
    \/ _extract_prices
    \/ _extract_patterns
    \/ \E fault \in LateFaults : Gather(fault)

Spec == Init /\ [][Next]_vars

(***************************************************************************)
(* The end of each extractor on its own: deduplication and sorting applied *)
(* to bounded lists of candidates, whatever path produced them.            *)
(***************************************************************************)
\* the longest list of candidates
MaxCands == 3

\* the lists of at most MaxCands elements of S
ListsOf(S) == UNION {[1..n -> S] : n \in 0..MaxCands}

\* pattern types, values that differ in what normalization removes, and
\* confidences
PatternSamples ==
    { <<"phone", "555-123-4567", 60>>, <<"phone", "555-123-4567", 80>>, <<"phone", "555.123.4567", 80>>,
      <<"email", "Ann@Example.com", 60>>, <<"email", "ann@example.com", 80>>,
      <<"order_id", "ord-123456", 80>>, <<"order_id", "ORD-123456", 60>>,
      <<"quantity", "5", 60>> }

PatternCands ==
    { [raw_text |-> x[2], pattern_type |-> x[1], confidence |-> x[3], value |-> x[2], context |-> None] :
        x \in PatternSamples }

\* 25.50 and 25.5 are one amount; 3.00 is another
PriceSamples ==
    { <<[digits |-> 2550, exp |-> -2], "USD", 60>>, <<[digits |-> 2550, exp |-> -2], "USD", 75>>,
      <<[digits |-> 255, exp |-> -1], "USD", 60>>, <<[digits |-> 255, exp |-> -1], "USD", 75>>,
      <<[digits |-> 255, exp |-> -1], "EUR", 60>>, <<[digits |-> 2550, exp |-> -2], "EUR", 75>>,
      <<[digits |-> 300, exp |-> -2], "USD", 60>>, <<[digits |-> 300, exp |-> -2], "USD", 75>> }

PriceCands ==
    { [raw_text |-> DecimalStr(x[1]), amount |-> x[1], currency |-> x[2], confidence |-> x[3],
       context |-> None, price_type |-> None] :
        x \in PriceSamples }

\* two datetimes of one day, and another day, with date types
SampleDates ==
    { <<[year |-> 2024, month |-> 1, day |-> 15, hour |-> 0, minute |-> 0, second |-> 0], None, 55>>,
      <<[year |-> 2024, month |-> 1, day |-> 15, hour |-> 0, minute |-> 0, second |-> 0], None, 65>>,
      <<[year |-> 2024, month |-> 1, day |-> 15, hour |-> 0, minute |-> 0, second |-> 0], "order", 65>>,
      <<[year |-> 2024, month |-> 1, day |-> 15, hour |-> 10, minute |-> 30, second |-> 0], None, 65>>,
      <<[year |-> 2024, month |-> 1, day |-> 15, hour |-> 10, minute |-> 30, second |-> 0], "order", 55>>,
      <<[year |-> 2024, month |-> 1, day |-> 15, hour |-> 10, minute |-> 30, second |-> 0], "order", 65>>,
      <<[year |-> 2024, month |-> 2, day |-> 1, hour |-> 0, minute |-> 0, second |-> 0], None, 55>>,
      <<[year |-> 2024, month |-> 2, day |-> 1, hour |-> 0, minute |-> 0, second |-> 0], "order", 65>> }

DateCands ==
    { [raw_text |-> DateStr(x[1]), parsed_date |-> x[1], confidence |-> x[3], format_detected |-> "iso_date",
       context |-> None, date_type |-> x[2]] :
        x \in SampleDates }

\* candidates of the regex path (at most 0.85) and of the library path
AddressCands ==
    { [raw_text |-> line, confidence |-> c, components |-> ComponentsOf(line),
       normalized |-> _normalize_address_components(ComponentsOf(line)), context |-> None] :
        line \in {"9 Elm Rd, Troy, NY 12180", "4 Oak St, Troy, NY 12180"}, c \in {45, 85, 95} }

AddressContextSamples == {None, "", "Shipping address", "notes"}

\* fn was applied to x and returned y
Apply(f, x, y) ==
    /\ fn = ""
    /\ fn' = f
    /\ arg' = x
    /\ val' = y
    /\ UNCHANGED <<callVars, envVars>>

EndOfPatterns ==
    /\ fn = ""
    /\ \E cands \in ListsOf(PatternCands) : Apply("extract_patterns", cands, SortedPatterns(cands))

EndOfPrices ==
    /\ fn = ""
    /\ \E cands \in ListsOf(PriceCands) : Apply("extract_prices", cands, SortedPrices(cands))

EndOfDates ==
    /\ fn = ""
    /\ \E cands \in ListsOf(DateCands) : Apply("extract_dates", cands, SortedDates(cands))

EndOfAddresses ==
    /\ fn = ""
    /\ \E cands \in ListsOf(AddressCands), c \in AddressContextSamples :
        Apply("extract_addresses", [addresses |-> cands, context |-> c], SortedAddresses(cands, c))

NextDedup ==
    \/ EndOfPatterns
    \/ EndOfPrices
    \/ EndOfDates
    \/ EndOfAddresses

SpecDedup == Init /\ [][NextDedup]_vars

(***************************************************************************)
(* The confidence of a candidate, path by path: each function that scores  *)
(* a candidate applied to inputs that take it through its branches.  val   *)
(* is the list of the confidences the function gave.                       *)
(***************************************************************************)
\* values of every pattern type, well-formed and not
ValueSamples == {"ORD-123456789", "AB1234", "customer@example.com", "a@b", "555-123-4567", "+15551234567",
                 "5", "20000", "x5", "http://x.io/a"}

\* contexts with and without the indicator words of the extractors
ContextSamples == {None, "", "order sku email phone tracking invoice customer", "total price, order date, shipping"}

\* datetimes inside and outside 1900 .. current year + 10
YearSamples == {1850, 2024, CurrentYear + 11}

DateOfYear(y) == [year |-> y, month |-> 1, day |-> 15, hour |-> 0, minute |-> 0, second |-> 0]

\* 0.005, 0.01, 99.99, 1000000, 2500000.5
AmountSamples ==
    { [digits |-> 5, exp |-> -3], [digits |-> 1, exp |-> -2], [digits |-> 9999, exp |-> -2],
      [digits |-> 1000000, exp |-> 0], [digits |-> 25000005, exp |-> -1] }

PriceTextSamples == {"$99.99", "99", "1,000,000 USD"}

LineSamples == {"Due date: March 3", "The meeting took place at the old office building downtown in spring"}

\* the components of the regex path, and the labels of libpostal
PostalLabels == {"house_number", "road", "city", "state", "postcode", "country", "unit"}

\* the dict with the keys of S, each holding "x"
DictOf(S) == [k \in S |-> "x"]

PatternConfidence ==
    /\ fn = ""
    /\ \E v \in ValueSamples, k \in 1..Len(PatternTypes), c \in ContextSamples :
           Apply("_calculate_pattern_confidence", [value |-> v, pattern_type |-> PatternTypes[k], context |-> c],
                 <<_calculate_pattern_confidence(v, PatternTypes[k], 0, v, c)>>)

DateRegexConfidence ==
    /\ fn = ""
    /\ \E k \in 1..Len(DatePatternNames), y \in YearSamples, c \in ContextSamples :
           Apply("DateExtractor._calculate_regex_confidence", [pattern_name |-> DatePatternNames[k], year |-> y, context |-> c],
                 <<Date_calculate_regex_confidence(DateStr(DateOfYear(y)), DateOfYear(y), DatePatternNames[k], c, now)>>)

DateparserConfidence ==
    /\ fn = ""
    /\ \E k \in 1..Len(DatePatternNames), y \in YearSamples, c \in ContextSamples :
           Apply("_calculate_dateparser_confidence", [pattern_name |-> DatePatternNames[k], year |-> y, context |-> c],
                 <<_calculate_dateparser_confidence(DateStr(DateOfYear(y)), DateOfYear(y), DatePatternNames[k], c, now)>>)

LineConfidence ==
    /\ fn = ""
    /\ \E line \in LineSamples, y \in YearSamples, c \in ContextSamples :
           Apply("_calculate_line_confidence", [line |-> line, year |-> y, context |-> c],
                 <<_calculate_line_confidence(line, DateOfYear(y), c, now)>>)

PriceRegexConfidence ==
    /\ fn = ""
    /\ \E x \in PriceTextSamples, a \in AmountSamples, cur \in {"USD", "PCS"}, k \in 1..Len(PricePatternNames), c \in ContextSamples :
           Apply("PriceExtractor._calculate_regex_confidence",
                 [price_text |-> x, amount |-> a, currency |-> cur, pattern_name |-> PricePatternNames[k], context |-> c],
                 <<Price_calculate_regex_confidence(x, a, cur, PricePatternNames[k], c)>>)

PriceParserConfidence ==
    /\ fn = ""
    /\ \E x \in PriceTextSamples, a \in AmountSamples, cur \in {None, "$"}, c \in ContextSamples :
           Apply("_calculate_parser_confidence", [price_text |-> x, amount |-> a, currency |-> cur, context |-> c],
                 <<_calculate_parser_confidence(x, [amount |-> a, currency |-> cur], c)>>)

AddressRegexConfidence ==
    /\ fn = ""
    /\ \E S \in SUBSET {ComponentNames[k] : k \in 1..Len(ComponentNames)}, c \in ContextSamples :
           Apply("_extract_with_regex", [components |-> S, context |-> c],
                 [k \in 1..Len(AddressOfComponents("line", c, DictOf(S))) |->
                     AddressOfComponents("line", c, DictOf(S))[k].confidence])

PostalConfidence ==
    /\ fn = ""
    /\ \E S \in SUBSET PostalLabels, line \in {"9 Elm Rd, Troy", "9 Elm Rd, Troy, NY 12180, United States"} :
           Apply("_calculate_postal_confidence", [components |-> S, raw_text |-> line],
                 <<_calculate_postal_confidence(DictOf(S), line)>>)

\* the lines given to _extract_with_postal
PostalLines == {"9 Elm Rd, Troy, NY 12180", "9 Elm Rd, Troy, NY 12180, United States of America", "9 Elm Rd", "see you soon at noon"}

ExtractWithPostal ==
    /\ fn = ""
    /\ \E line \in PostalLines, S \in SUBSET PostalLabels :
           Apply("_extract_with_postal", [line |-> line, parsed |-> S], PostalOfLine(line, S))

\* the keys of the components validate_address looks at, and one it does
\* not
ValidatedLabels == {"road", "street_name", "city", "postcode", "postal_code", "state"}

\* postal codes of five digits, of five and four, and of neither shape
PostalSamples == {"12180", "12180-1234", "1218", "12180-12", "121801234", "SW1A 1AA", ""}

\* the components with the keys of S: postcode holds p, postal_code holds
\* q, any other key "x"
ComponentsWith(S, p, q) ==
    [k \in S |-> IF k = "postcode" THEN p ELSE IF k = "postal_code" THEN q ELSE "x"]

ValidateAddress ==
    /\ fn = ""
    /\ \E S \in SUBSET ValidatedLabels, p \in PostalSamples, q \in {"12180", "x"}, c \in {30, 85} :
           Apply("validate_address",
                 [raw_text |-> "line", confidence |-> c, components |-> ComponentsWith(S, p, q),
                  normalized |-> _normalize_address_components(ComponentsWith(S, p, q)), context |-> None],
                 validate_address([raw_text |-> "line", confidence |-> c, components |-> ComponentsWith(S, p, q),
                                   normalized |-> _normalize_address_components(ComponentsWith(S, p, q)),
                                   context |-> None]))

AdjustedConfidence ==
    /\ fn = ""
    /\ \E cands \in ListsOf(AddressCands), c \in AddressContextSamples \ {None, ""} :
           Apply("_adjust_confidence_with_context", [addresses |-> cands, context |-> c],
                 [k \in 1..Len(cands) |-> _adjust_confidence_with_context(cands, c)[k].confidence])

NextConf ==
    \/ PatternConfidence
    \/ DateRegexConfidence
    \/ DateparserConfidence
    \/ LineConfidence
    \/ PriceRegexConfidence
    \/ PriceParserConfidence
    \/ AddressRegexConfidence
    \/ PostalConfidence
    \/ ExtractWithPostal
    \/ AdjustedConfidence

SpecConf == Init /\ [][NextConf]_vars

(***************************************************************************)
(* The functions of the processor and of the price extractor that take     *)
(* candidates and return a summary, each applied on its own to bounded     *)
(* lists of candidates.                                                    *)
(***************************************************************************)
\* the longest list of candidates of one type
MaxPerType == 2

\* the lists of at most MaxPerType elements of S
ShortListsOf(S) == UNION {[1..n -> S] : n \in 0..MaxPerType}

\* candidates of which only the confidence is read (the Mock objects of
\* test_calculate_overall_confidence)
ScoredCands == { [confidence |-> c] : c \in {40, 100} }

OverallConfidence ==
    /\ fn = ""
    /\ \E a \in ShortListsOf(ScoredCands), d \in ShortListsOf(ScoredCands),
          p \in ShortListsOf(ScoredCands), q \in ShortListsOf(ScoredCands) :
           Apply("_calculate_overall_confidence", [addresses |-> a, dates |-> d, prices |-> p, patterns |-> q],
                 _calculate_overall_confidence(a, d, p, q))

\* lists of candidates of which only the type or the context is read (the
\* Mock objects of test_infer_document_type), by their types
PatternTypeSamples ==
    { <<>>, <<"email">>, <<"order_id">>, <<"invoice">>, <<"tracking">>, <<"order_id", "invoice", "tracking">> }

DateTypeSamples == { <<>>, <<None>>, <<"order">>, <<"invoice">>, <<"ship">>, <<"order", "invoice">> }

PriceTypeSamples == { <<>>, <<None>>, <<"total">>, <<"tax">>, <<None, None, None>>, <<"total", "tax", "tax">> }

AddressContextLists == { <<>>, <<None>>, <<"Shipping address">> }

InferDocumentType ==
    /\ fn = ""
    /\ \E a \in AddressContextLists, d \in DateTypeSamples, p \in PriceTypeSamples, q \in PatternTypeSamples :
           Apply("_infer_document_type", [addresses |-> a, dates |-> d, prices |-> p, patterns |-> q],
                 _infer_document_type([k \in DOMAIN a |-> [context |-> a[k], confidence |-> 85]],
                                      [k \in DOMAIN d |-> [date_type |-> d[k], confidence |-> 80]],
                                      [k \in DOMAIN p |-> [price_type |-> p[k], confidence |-> 70]],
                                      [k \in DOMAIN q |-> [pattern_type |-> q[k], confidence |-> 90]]))

RECURSIVE SumScore(_)
\* sum(v['score'] for v in validations)
SumScore(validations) == IF validations = <<>> THEN 0 ELSE Head(validations).score + SumScore(Tail(validations))

\* sum(1 for v in validations if v['valid'])
ValidCount(validations) == Len(SelectSeq(validations, LAMBDA v : v.valid))

\* the entry of component_validations for one type
ComponentValidation(validations) ==
    [average_score |-> Frac(SumScore(validations), Len(validations)),
     valid_count |-> ValidCount(validations),
     total_count |-> Len(validations)]

\* a + b for fractions
FracAdd(a, b) == Frac(a.num * b.den + b.num * a.den, a.den * b.den)

\* DeterministicProcessor.validate_results; each argument is the list of
\* what the type's validate_* returned for the candidates of results, in
\* order, empty when results has no candidate of the type
validate_results(addr_validations, date_validations, price_validations, pattern_validations) ==
    LET by_type == [addresses |-> addr_validations, dates |-> date_validations,
                    prices |-> price_validations, patterns |-> pattern_validations]
        present == {f \in DOMAIN by_type : by_type[f] # <<>>}
        avg(f) == IF by_type[f] # <<>> THEN Frac(SumScore(by_type[f]), Len(by_type[f])) ELSE Frac(0, 1)
        total_score == FracAdd(FracAdd(avg("addresses"), avg("dates")), FracAdd(avg("prices"), avg("patterns")))
        component_count == Cardinality(present)
        overall_score == Frac(total_score.num, total_score.den * component_count)
    IN  [overall_valid |-> IF component_count > 0 THEN FracLE(Frac(60, 1), overall_score) ELSE TRUE,
         overall_score |-> IF component_count > 0 THEN overall_score ELSE Frac(0, 1),
         component_validations |-> [f \in present |-> ComponentValidation(by_type[f])],
         issues |-> <<>>,
         suggestions |-> <<>>]

\* what a validate_* method returns: a score in hundredths and a verdict
\* (0.4 and 0.8: sums and quotients of these scores in floating point fall
\* on the same side of 0.6 as the exact ones, for up to three of each type)
ValidationScores == {40, 80}

Validations == { [valid |-> s >= 50, score |-> s] : s \in ValidationScores }

\* validate_results applied to results whose candidates the validate_*
\* methods have scored
ValidateResults ==
    /\ fn = ""
    /\ \E a, d, p, q \in ShortListsOf(Validations) :
           Apply("validate_results", [addresses |-> a, dates |-> d, prices |-> p, patterns |-> q],
                 validate_results(a, d, p, q))

\* a + b for Decimals: the sum is exact and has the smaller exponent
DecimalAdd(a, b) ==
    LET e == Min(a.exp, b.exp)
    IN  [digits |-> a.digits * Pow10(a.exp - e) + b.digits * Pow10(b.exp - e), exp |-> e]

\* price.price_type or 'unknown'
TypeOrUnknown(price) == IF price.price_type = None THEN "unknown" ELSE price.price_type

\* one turn of the loop of calculate_totals over prices when by_type is set
AddToType(totals_by_type, price) ==
    LET price_type == TypeOrUnknown(price)
        entered == IF price_type \in DOMAIN totals_by_type THEN totals_by_type
                   ELSE (price_type :> [total_amount |-> [digits |-> 0, exp |-> 0], currency |-> price.currency,
                                        count |-> 0, prices |-> <<>>]) @@ totals_by_type
        entry == entered[price_type]
    IN  IF entry.currency = price.currency
        THEN [entered EXCEPT ![price_type] = [total_amount |-> DecimalAdd(entry.total_amount, price.amount),
                                              currency |-> entry.currency,
                                              count |-> entry.count + 1,
                                              prices |-> Append(entry.prices, price)]]
        ELSE entered

RECURSIVE TotalsByType(_, _)
\* the loop of calculate_totals over prices when by_type is set
TotalsByType(prices, totals_by_type) ==
    IF prices = <<>> THEN totals_by_type
    ELSE TotalsByType(Tail(prices), AddToType(totals_by_type, Head(prices)))

RECURSIVE CurrencyTotal(_, _)
\* the loop of calculate_totals over prices when by_type is not set: the
\* amounts of the prices in primary_currency and their number
CurrencyTotal(prices, primary_currency) ==
    IF prices = <<>> THEN [total_amount |-> [digits |-> 0, exp |-> 0], count |-> 0]
    ELSE LET rest == CurrencyTotal(SubSeq(prices, 1, Len(prices) - 1), primary_currency)
             price == prices[Len(prices)]
         IN  IF price.currency = primary_currency
             THEN [total_amount |-> DecimalAdd(rest.total_amount, price.amount), count |-> rest.count + 1]
             ELSE rest

RECURSIVE AllAmounts(_)
\* a total that adds every amount, whatever its currency
AllAmounts(prices) ==
    IF prices = <<>> THEN [total_amount |-> [digits |-> 0, exp |-> 0], count |-> 0]
    ELSE LET rest == AllAmounts(SubSeq(prices, 1, Len(prices) - 1))
         IN  [total_amount |-> DecimalAdd(rest.total_amount, prices[Len(prices)].amount), count |-> rest.count + 1]

\* calculate_totals adding the amounts of all currencies to one total
MixedTotals(prices, by_type) ==
    IF prices = <<>> THEN [total_amount |-> [digits |-> 0, exp |-> 0], currency |-> "USD", count |-> 0]
    ELSE IF by_type
    THEN [t \in {TypeOrUnknown(prices[k]) : k \in DOMAIN prices} |->
             LET of_type == SelectSeq(prices, LAMBDA p : TypeOrUnknown(p) = t)
                 sum == AllAmounts(of_type)
             IN  [total_amount |-> sum.total_amount, currency |-> of_type[1].currency,
                  count |-> sum.count, prices |-> of_type]]
    ELSE LET sum == AllAmounts(prices)
         IN  [total_amount |-> sum.total_amount, currency |-> prices[1].currency,
              count |-> sum.count, prices |-> prices]

\* PriceExtractor.calculate_totals
calculate_totals(prices, by_type) ==
    IF prices = <<>> THEN [total_amount |-> [digits |-> 0, exp |-> 0], currency |-> "USD", count |-> 0]
    ELSE IF by_type THEN TotalsByType(prices, <<>>)
    ELSE LET primary_currency == prices[1].currency
             sum == CurrencyTotal(prices, primary_currency)
         IN  [total_amount |-> sum.total_amount, currency |-> primary_currency,
              count |-> sum.count, prices |-> prices]

\* the longest list of prices calculate_totals is given
MaxPrices == 3

\* prices as the extractor makes them: 19.99 and 5, in two currencies, of a
\* role or of none
TotalledPrices ==
    { [amount |-> a, currency |-> c, price_type |-> t] :
        a \in {[digits |-> 1999, exp |-> -2], [digits |-> 5, exp |-> 0]}, c \in {"USD", "EUR"}, t \in {None, "tax"} }

\* calculate_totals applied to a list of prices, with by_type or without
CalculateTotals ==
    /\ fn = ""
    /\ \E n \in 0..MaxPrices, by_type \in BOOLEAN :
           \E prices \in [1..n -> TotalledPrices] :
               Apply("calculate_totals", [prices |-> prices, by_type |-> by_type], calculate_totals(prices, by_type))

\* patterns and dates for the cross analysis: order ids and emails, dates
\* typed 'order' and dates of no type, each of two confidences
CrossPatterns ==
    { [pattern_type |-> t, value |-> "ORD-123456", confidence |-> c] : t \in {"order_id", "email"}, c \in {60, 90} }

CrossDates ==
    { [date_type |-> t, parsed_date |-> DateOfYear(2024), confidence |-> c] : t \in {"order", None}, c \in {50, 85} }

CrossPrices ==
    { <<>>, <<[price_type |-> "total", amount |-> [digits |-> 9999, exp |-> -2], currency |-> "USD", confidence |-> 80]>> }

\* _perform_cross_analysis applied to the candidates of a result
CrossAnalysis ==
    /\ fn = ""
    /\ \E d \in ShortListsOf(CrossDates), p \in CrossPrices, q \in ShortListsOf(CrossPatterns) :
           Apply("_perform_cross_analysis", [addresses |-> <<>>, dates |-> d, prices |-> p, patterns |-> q],
                 _perform_cross_analysis(<<>>, d, p, q))

NextCalls ==
    \/ OverallConfidence
    \/ InferDocumentType
    \/ ValidateResults
    \/ CalculateTotals
    \/ CrossAnalysis
    \/ ValidateAddress

SpecCalls == Init /\ [][NextCalls]_vars

(***************************************************************************)
(* One processor serving several calls of process_text, one after or       *)
(* during another, while the clock runs: each call is started, its tasks   *)
(* run on the pool workers, and it returns.                                *)
(***************************************************************************)
\* the most calls made on the processor
MaxCalls == 2

\* how many times the year of the clock changes
MaxNewYears == 1

\* the arguments of the calls: a text with a date eleven years after
\* CurrentYear and no context, and a text with an address and a context
RepeatArguments ==
    { <<"Due 2037-01-15", None, NoConfig>>,
      <<"9 Elm Rd, Troy, NY 12180", "Shipping price, order date", TypesConfig(<<"email">>)>> }

\* a processor whose call flips the flag its address extractor reads
ToggledAfterCall(postal) == ~postal

\* the attributes of the processor and of its extractors after process_text
\* has run: the method and the methods it calls assign to none of them
AfterCall(postal) == postal

\* process_text assembling its result from the results of the tasks
ResultsOf(outputs, t, p) ==
    [addresses |-> outputs[1], dates |-> outputs[2], prices |-> outputs[3], patterns |-> outputs[4],
     metadata |-> _compile_metadata(outputs[1], outputs[2], outputs[3], outputs[4], t, p),
     confidence |-> _calculate_overall_confidence(outputs[1], outputs[2], outputs[3], outputs[4])]

\* a call is made: process_text creates the four tasks
CallStart(t, c, cfg) ==
    /\ Len(calls) < MaxCalls
    /\ calls' = Append(calls, [st |-> "gather", text |-> t, context |-> c, extraction_config |-> cfg, year |-> 0,
                               outputs |-> <<>>, result |-> NoResults])
    /\ UNCHANGED <<callVars, fn, arg, val, now>>

\* the tasks of a call run on the workers; the date task reads the clock
CallExtract(k) ==
    /\ k \in 1..Len(calls)
    /\ calls[k].st = "gather"
    /\ calls' = [calls EXCEPT ![k].st = "join",
                              ![k].year = now,
                              ![k].outputs = [i \in 1..4 |->
                                  ExtractTask(ExtractorOutput(i, calls[k].text, calls[k].context, calls[k].extraction_config,
                                                              postal_available, now), FALSE)]]
    /\ postal_available' = AfterCall(postal_available)
    /\ UNCHANGED <<pc, text, context, executor, pending, task_result, completed, failed,
                   raised, result, returns, fn, arg, val, now>>

\* the call resumes after the gather and returns its result
CallReturn(k) ==
    /\ k \in 1..Len(calls)
    /\ calls[k].st = "join"
    /\ calls' = [calls EXCEPT ![k].st = "done",
                              ![k].result = ResultsOf(calls[k].outputs, calls[k].text, postal_available)]
    /\ UNCHANGED <<callVars, fn, arg, val, now>>

\* the year ends
NewYear ==
    /\ now < CurrentYear + MaxNewYears
    /\ now' = now + 1
    /\ UNCHANGED <<callVars, fn, arg, val, calls>>

NextRepeat ==
    \/ \E a \in RepeatArguments : CallStart(a[1], a[2], a[3])
    \/ \E k \in 1..MaxCalls : CallExtract(k)
    \/ \E k \in 1..MaxCalls : CallReturn(k)
    \/ NewYear

SpecRepeat == Init /\ [][NextRepeat]_vars

(***************************************************************************)
(* Each extractor called on one text twice, with a context and without.    *)
(***************************************************************************)
\* short texts for the four extractors; "$0.005" is a price below 0.01, and
\* the quantity 0 and the digits 123456 as a sku fail a format validator
ContextTexts ==
    { "$0.005", "Total $25.50", "25.5 USD", "3 dollars", "2024-01-15", "due 01/15/2024",
      "9 Elm Rd, Troy, NY 12180", "ORD-123456", "a@b.co", "Qty: 5", "0 pcs, 5 pcs", "",
      "9 Elm Rd, Troy, NY 12180, USA\n4 Oak St 12180", "mail Ann@Example.com or bob@x.org" }

\* the contexts a caller supplies
GivenContexts == {"Shipping price, order date", "invoice from customer", "hello"}

\* what an extractor returns for a text with the context, and without it
WithAndWithout(given, omitted) == [given |-> given, omitted |-> omitted]

AddressesInContext ==
    /\ fn = ""
    /\ \E t \in ContextTexts, c \in GivenContexts :
           Apply("extract_addresses", [text |-> t, context |-> c],
                 WithAndWithout(extract_addresses(t, c, postal_available), extract_addresses(t, None, postal_available)))

DatesInContext ==
    /\ fn = ""
    /\ \E t \in ContextTexts, c \in GivenContexts :
           Apply("extract_dates", [text |-> t, context |-> c],
                 WithAndWithout(extract_dates(t, c, now), extract_dates(t, None, now)))

PricesInContext ==
    /\ fn = ""
    /\ \E t \in ContextTexts, c \in GivenContexts :
           Apply("extract_prices", [text |-> t, context |-> c],
                 WithAndWithout(extract_prices(t, c), extract_prices(t, None)))

PatternsInContext ==
    /\ fn = ""
    /\ \E t \in ContextTexts, c \in GivenContexts :
           Apply("extract_patterns", [text |-> t, context |-> c],
                 WithAndWithout(extract_patterns(t, None, c), extract_patterns(t, None, None)))

\* the dates written into a text, one for each date pattern
DateSamples == {"2024-01-15", "01/15/2024", "1-15-24", "15.01.2024", "2024-01-15T10:30:00", "January 25, 2024", "Jan 25, 2024"}

\* what precedes the date in the text: role keywords of the date types, or
\* words that are none
DatePrefixes == {"", "order date ", "shipped ", "payment due ", "issued ", "hello "}

\* extract_dates of a text with the date after a prefix and of the date
\* alone, both with the caller's context, and of the date alone without it
DatesNearKeyword ==
    /\ fn = ""
    /\ \E d \in DateSamples, w \in DatePrefixes, c \in GivenContexts \cup {None} :
           Apply("DateExtractor.extract_dates", [date |-> d, prefix |-> w, context |-> c],
                 [near |-> extract_dates(w \o d, c, now),
                  alone |-> extract_dates(d, c, now),
                  bare |-> extract_dates(d, None, now)])

NextContext ==
    \/ AddressesInContext
    \/ DatesInContext
    \/ PricesInContext
    \/ PatternsInContext
    \/ DatesNearKeyword

SpecContext == Init /\ [][NextContext]_vars

(***************************************************************************)
(* process_text called on one text twice, with an extraction_config and    *)
(* without: every task runs to its end and no exception is raised.         *)
(***************************************************************************)
\* texts with patterns of several types, and with a date, a price, an address
ConfigTexts ==
    { "ORD-123456 a@b.co", "Qty: 5, Total $25.50", "due 2024-01-15 a@b.co", "9 Elm Rd, Troy, NY 12180", "INV-2024 5 pcs", "" }

\* the lists of pattern types a config names: registered names, a name that
\* is not registered, a name twice, and no name
TypeLists ==
    { <<>>, <<"email">>, <<"order_id">>, <<"quantity", "email">>, <<"nosuch", "sku">>,
      <<"email", "email">>, <<"invoice", "customer_id">> }

\* {}, {'patterns': {}}, {'prices': {'types': ['email']}} and
\* {'patterns': {'types': T}}
DictConfigs ==
    {EmptyConfig, Config("dict", TRUE, FALSE, <<>>), Config("dict", FALSE, TRUE, <<"email">>)}
    \cup {TypesConfig(T) : T \in TypeLists}

\* what process_text returns when no task fails
Processed(t, c, cfg, p, current_year) ==
    ResultsOf([i \in 1..4 |-> ExtractTask(ExtractorOutput(i, t, c, cfg, p, current_year), FALSE)], t, p)

ProcessWithConfig ==
    /\ fn = ""
    /\ \E t \in ConfigTexts, c \in Contexts, cfg \in DictConfigs :
           Apply("process_text", [text |-> t, context |-> c, extraction_config |-> cfg],
                 WithAndWithout(Processed(t, c, cfg, postal_available, now),
                                Processed(t, c, NoConfig, postal_available, now)))

NextConfig == ProcessWithConfig

SpecConfig == Init /\ [][NextConfig]_vars

(***************************************************************************)
(* The results of a call read afterwards: to_dict, validate_results and    *)
(* the compilation of the metadata applied to the results process_text     *)
(* returned.                                                               *)
(***************************************************************************)
\* texts with candidates of every type; "1e16" and "1e-7" are amounts that
\* str() writes with an exponent, "$0.005" one it writes without
ReadTexts ==
    { "ORD-123456 a@b.co", "Qty: 5, Total $25.50", "due 2024-01-15 a@b.co", "9 Elm Rd, Troy, NY 12180",
      "1e16", "1e-7", "$0.005", "2.50e3 and $1,000.00", "" }

\* datetime.isoformat() of a datetime without microseconds
IsoFormat(d) ==
    DateStr(d) \o "T" \o TwoDigits(d.hour) \o ":" \o TwoDigits(d.minute) \o ":" \o TwoDigits(d.second)

\* asdict(candidate) with one field replaced
WithField(cand, field, value) == [f \in DOMAIN cand |-> IF f = field THEN value ELSE cand[f]]

\* a to_dict that writes an amount rounded down to two decimal places
FloatDict(results) ==
    [addresses |-> results.addresses,
     dates |-> [k \in DOMAIN results.dates |->
                    WithField(results.dates[k], "parsed_date", IsoFormat(results.dates[k].parsed_date))],
     prices |-> [k \in DOMAIN results.prices |->
                    WithField(results.prices[k], "amount",
                              DecimalStr(IF results.prices[k].amount.exp < -2
                                         THEN [digits |-> results.prices[k].amount.digits \div Pow10(-2 - results.prices[k].amount.exp),
                                               exp |-> -2]
                                         ELSE results.prices[k].amount))],
     patterns |-> results.patterns,
     metadata |-> results.metadata,
     confidence |-> results.confidence]

\* DeterministicProcessor.to_dict
to_dict(results) ==
    [addresses |-> results.addresses,
     dates |-> [k \in DOMAIN results.dates |->
                    WithField(results.dates[k], "parsed_date", IsoFormat(results.dates[k].parsed_date))],
     prices |-> [k \in DOMAIN results.prices |->
                    WithField(results.prices[k], "amount", DecimalStr(results.prices[k].amount))],
     patterns |-> results.patterns,
     metadata |-> results.metadata,
     confidence |-> results.confidence]

\* a reading method that leaves every pattern with the confidence 1.0
RescoredAfterRead(results) ==
    [results EXCEPT !.patterns = [k \in DOMAIN results.patterns |-> [results.patterns[k] EXCEPT !.confidence = 100]]]

\* the candidates of the results after a method that reads them has run:
\* to_dict, validate_results and _compile_metadata assign to no candidate
\* and to no list of candidates
AfterRead(results) == results

\* process_text returns its results; no task fails
HoldResults ==
    /\ pc = "idle"
    /\ \E t \in ReadTexts, c \in Contexts, p \in BOOLEAN :
           /\ text' = t
           /\ context' = c
           /\ postal_available' = p
           /\ result' = Processed(t, c, NoConfig, p, now)
    /\ pc' = "done"
    /\ returns' = returns + 1
    /\ UNCHANGED <<executor, pending, task_result, completed, failed, raised, fn, arg, val, now, calls>>

\* a method that reads the results has run and returned y
Read(f, y) ==
    /\ fn' = f
    /\ arg' = result
    /\ val' = y
    /\ result' = AfterRead(result)
    /\ UNCHANGED <<pc, text, context, postal_available, executor, pending, task_result, completed, failed,
                   raised, returns, now, calls>>

ToDict ==
    /\ pc = "done"
    /\ fn = ""
    /\ Read("to_dict", to_dict(result))

\* validate_results, the validate_* methods returning what they may
ValidateHeld ==
    /\ pc = "done"
    /\ fn = ""
    /\ \E a \in [DOMAIN result.addresses -> Validations], d \in [DOMAIN result.dates -> Validations],
          p \in [DOMAIN result.prices -> Validations], q \in [DOMAIN result.patterns -> Validations] :
           Read("validate_results", validate_results(a, d, p, q))

CompileMetadata ==
    /\ pc = "done"
    /\ fn = ""
    /\ Read("_compile_metadata",
            _compile_metadata(result.addresses, result.dates, result.prices, result.patterns, text, postal_available))

NextRead ==
    \/ HoldResults
    \/ ToDict
    \/ ValidateHeld
    \/ CompileMetadata

SpecRead == Init /\ [][NextRead]_vars

(***************************************************************************)
(* Properties of process_text (Spec)                                       *)
(***************************************************************************)
\* C1: process_text never raises to its caller: whenever an exception is
\* raised inside the call (before the tasks are created, in the use of
\* their results, in the metadata compilation or in the overall confidence),
\* the call has returned one result, whose four sequences are empty, whose
\* confidence is 0.0 and whose metadata holds the failure under 'error'.
C1_ErrorIsResult ==
    raised # "" =>
        /\ pc = "done"
        /\ returns = 1
        /\ result.addresses = <<>>
        /\ result.dates = <<>>
        /\ result.prices = <<>>
        /\ result.patterns = <<>>
        /\ result.confidence.num = 0
        /\ "error" \in DOMAIN result.metadata
        /\ result.metadata.error = raised

\* an exception after the gather, with the output of a task discarded
C1_Witness ==
    /\ pc = "done"
    /\ raised = "confidence computation failed"
    /\ task_result[4] # <<>>
    /\ result.patterns = <<>>

\* C2: partial failure is isolated: when extractor tasks fail and nothing
\* else does, the result has the empty sequence for each failed task and the
\* output of the extractor for every other task, its metadata is compiled
\* from these sequences and has no 'error' key, and its confidence is the
\* overall confidence of these sequences.
C2_PartialFailure ==
    (pc = "done" /\ Len(completed) = 4 /\ raised \notin (LateFaults \ {""})) =>
        /\ result.addresses = (IF 1 \in failed THEN <<>> ELSE executor[1])
        /\ result.dates = (IF 2 \in failed THEN <<>> ELSE executor[2])
        /\ result.prices = (IF 3 \in failed THEN <<>> ELSE executor[3])
        /\ result.patterns = (IF 4 \in failed THEN <<>> ELSE executor[4])
        /\ "error" \notin DOMAIN result.metadata
        /\ result.metadata = _compile_metadata(result.addresses, result.dates, result.prices,
                                               result.patterns, text, postal_available)
        /\ result.metadata.extraction_stats.total_extractions
               = Len(result.addresses) + Len(result.dates) + Len(result.prices) + Len(result.patterns)
        /\ result.confidence = _calculate_overall_confidence(result.addresses, result.dates,
                                                             result.prices, result.patterns)

\* the date task failed with dates to find, the pattern task did not
C2_Witness ==
    /\ pc = "done"
    /\ raised = ""
    /\ failed = {2}
    /\ executor[2] # <<>>
    /\ result.dates = <<>>
    /\ result.patterns = executor[4]
    /\ result.patterns # <<>>

\* C3: for every completion order of the four tasks, the call produces its
\* result once, only after all four tasks have finished (or before any was
\* started, for a failure), and the outputs of the address, date, price and
\* pattern tasks are the addresses, dates, prices and patterns fields.
C3_OneResultAfterAll ==
    /\ returns <= 1
    /\ (returns = 1) = (pc = "done")
    /\ returns = 1 => /\ pending = {}
                      /\ Len(completed) \in {0, 4}
                      /\ Len(completed) = 0 => raised # ""
    /\ (pc = "done" /\ raised = "") =>
          /\ result.addresses = task_result[1]
          /\ result.dates = task_result[2]
          /\ result.prices = task_result[3]
          /\ result.patterns = task_result[4]

\* the tasks finished in the reverse of the order they were started in
C3_Witness ==
    /\ pc = "done"
    /\ raised = ""
    /\ completed = <<4, 3, 2, 1>>
    /\ result.addresses # <<>>
    /\ result.dates # <<>>
    /\ result.prices # <<>>
    /\ Len(result.addresses) < Len(result.dates)
    /\ Len(result.dates) < Len(result.prices)

\* C8: for the order scenario text, without context, process_text returns
\* metadata.cross_analysis.document_type.most_likely = "order".
C8_OrderScenario ==
    (pc = "done" /\ text = OrderText /\ context = None /\ raised = "" /\ failed = {}) =>
        result.metadata.cross_analysis.document_type.most_likely = "order"

\* C9: when the line "123 Main Street, Anytown, CA 90210" appears twice,
\* extract_addresses returns exactly one address candidate.
C9_OneAddress == ((pc = "gather" \/ Len(completed) = 4) /\ text = TwoAddressText) => Len(executor[1]) = 1

\* C10 as stated: for a text with "5 pcs" and "Qty: 5", extract_patterns
\* returns two quantity candidates.
C10_TwoQuantities ==
    ((pc = "gather" \/ Len(completed) = 4) /\ text = QuantityText) =>
        Cardinality({k \in 1..Len(executor[4]) : executor[4][k].pattern_type = "quantity"}) = 2

\* C10, amended: for the text of the lines "5 pcs" and "Qty: 5",
\* extract_patterns returns exactly one quantity candidate, of value "5":
\* the two quantity matches have the same deduplication key and are merged.
C10_OneQuantity ==
    ((pc = "gather" \/ Len(completed) = 4) /\ text = QuantityText) =>
        /\ Cardinality({k \in 1..Len(executor[4]) : executor[4][k].pattern_type = "quantity"}) = 1
        /\ \A k \in 1..Len(executor[4]) : executor[4][k].pattern_type = "quantity" => executor[4][k].value = "5"

\* the pattern extractor has run on the quantity text and found a quantity
C10_Witness ==
    /\ pc = "gather"
    /\ text = QuantityText
    /\ \E k \in 1..Len(executor[4]) : executor[4][k].pattern_type = "quantity"

\* C12: after a call of process_text, the confidence of the result is 0.0
\* if and only if its four sequences are empty; its metadata has an 'error'
\* key only if the four sequences are empty and the confidence is 0.0; the
\* empty string gives four empty sequences and the confidence 0.0.
C12_ZeroConfidence ==
    LET empty == /\ result.addresses = <<>>
                 /\ result.dates = <<>>
                 /\ result.prices = <<>>
                 /\ result.patterns = <<>>
    IN  pc = "done" =>
            /\ (result.confidence.num = 0) <=> empty
            /\ "error" \in DOMAIN result.metadata => (empty /\ result.confidence.num = 0)
            /\ text = "" => (empty /\ result.confidence.num = 0)

\* the call on the empty string ended without an exception
C12_Witness ==
    /\ pc = "done"
    /\ text = ""
    /\ raised = ""
    /\ Len(completed) = 4
    /\ result.confidence.num = 0
    /\ "error" \notin DOMAIN result.metadata

(***************************************************************************)
(* Properties of the candidates an extractor returns (SpecConf, SpecDedup) *)
(***************************************************************************)
\* C4: every confidence a candidate gets, on the library path or the regex
\* path, with or without context, is at least 0.0 and at most 1.0.
C4_ConfidenceBound == fn # "" => \A k \in 1..Len(val) : 0 <= val[k] /\ val[k] <= 100

\* a libpostal address with every component: the bonuses add up to more than
\* 1.0 and the confidence is 1.0
C4_Witness ==
    /\ fn = "_calculate_postal_confidence"
    /\ arg.components = PostalLabels
    /\ val = <<100>>

\* C5: the sequence each of the four extractors returns is non-increasing in
\* confidence; for addresses, in the confidence after the context boost.
C5_Sorted ==
    fn \in {"extract_addresses", "extract_dates", "extract_prices", "extract_patterns"} =>
        \A k \in 1..(Len(val) - 1) : val[k].confidence >= val[k + 1].confidence

\* three addresses in increasing confidence, boosted by the context
C5_Witness ==
    /\ fn = "extract_addresses"
    /\ arg.context = "Shipping address"
    /\ Len(val) = 3
    /\ arg.addresses[1].confidence < arg.addresses[2].confidence
    /\ arg.addresses[2].confidence < arg.addresses[3].confidence
    /\ val[1].confidence = 100
    /\ val[3].confidence = 55

\* C6: no two candidates returned by extract_patterns have the same type and
\* the same normalized value (digits only for a phone, lower case for an
\* email, upper case for an identifier); no two returned by extract_prices
\* have the same amount and currency; no two returned by extract_dates are
\* of the same calendar day, whatever their date types.
C6_NoSharedKey ==
    LET norm(p) == IF p.pattern_type = "phone" THEN DigitsOnly(p.value)
                   ELSE IF p.pattern_type = "email" THEN StrLower(p.value)
                   ELSE IF p.pattern_type \in {"order_id", "sku", "tracking", "invoice", "customer_id"}
                        THEN StrUpper(p.value)
                   ELSE p.value
        same(a, b) == CASE fn = "extract_patterns" -> a.pattern_type = b.pattern_type /\ norm(a) = norm(b)
                        [] fn = "extract_prices" -> Normalize(a.amount) = Normalize(b.amount) /\ a.currency = b.currency
                        [] fn = "extract_dates" -> /\ a.parsed_date.year = b.parsed_date.year
                                                   /\ a.parsed_date.month = b.parsed_date.month
                                                   /\ a.parsed_date.day = b.parsed_date.day
    IN  fn \in {"extract_patterns", "extract_prices", "extract_dates"} =>
            \A i, j \in 1..Len(val) : i < j => ~same(val[i], val[j])

\* two dates of one day with different times and date types become one
C6_Witness ==
    /\ fn = "extract_dates"
    /\ Len(arg) = 2
    /\ arg[1].parsed_date # arg[2].parsed_date
    /\ arg[1].date_type # arg[2].date_type
    /\ Len(val) = 1

\* C7: deduplication in the date, price and pattern extractors keeps, for
\* every key among the candidates, exactly one candidate of that key, and
\* its confidence is the maximum of the candidates of that key.
C7_BestPerKey ==
    LET key(x) == CASE fn = "extract_patterns" -> PatternKey(x)
                    [] fn = "extract_prices" -> PriceKey(x)
                    [] fn = "extract_dates" -> DayKey(x)
    IN  fn \in {"extract_patterns", "extract_prices", "extract_dates"} =>
            /\ \A i \in 1..Len(arg) :
                  /\ Cardinality({j \in 1..Len(val) : key(val[j]) = key(arg[i])}) = 1
                  /\ \A j \in 1..Len(val) : key(val[j]) = key(arg[i]) => val[j].confidence >= arg[i].confidence
            /\ \A j \in 1..Len(val) : \E i \in 1..Len(arg) : arg[i] = val[j]

\* 25.50 at the lower confidence, then 25.5 at the higher, then another
\* amount: the second is kept for the first two
C7_Witness ==
    /\ fn = "extract_prices"
    /\ Len(arg) = 3
    /\ Len(val) = 2
    /\ arg[1].amount # arg[2].amount
    /\ PriceKey(arg[1]) = PriceKey(arg[2])
    /\ arg[1].confidence < arg[2].confidence
    /\ val[1] = arg[2]

(***************************************************************************)
(* Properties of the summaries (SpecCalls)                                 *)
(***************************************************************************)
\* C11: with at least one candidate, the overall confidence is
\* min(1.0, mean of the confidences of all the candidates of the four types
\* + min(0.05 * number of non-empty types, 0.15)); with four non-empty types
\* the bonus is 0.15; the value is in [0, 1].
C11_OverallConfidence ==
    LET total == SumConfidence(arg.addresses) + SumConfidence(arg.dates)
                 + SumConfidence(arg.prices) + SumConfidence(arg.patterns)
        n == Len(arg.addresses) + Len(arg.dates) + Len(arg.prices) + Len(arg.patterns)
        k == Cardinality({f \in {"addresses", "dates", "prices", "patterns"} : arg[f] # <<>>})
        bonus == IF 5 * k < 15 THEN 5 * k ELSE 15
        sum == total + bonus * n
    IN  (fn = "_calculate_overall_confidence" /\ n > 0) =>
            /\ val.den > 0
            /\ val.num * n = val.den * (IF sum < 100 * n THEN sum ELSE 100 * n)
            /\ k = 4 => val.num * n = val.den * (IF total + 15 * n < 100 * n THEN total + 15 * n ELSE 100 * n)
            /\ 0 <= val.num
            /\ val.num <= 100 * val.den

\* four non-empty types, one with two candidates of different confidences,
\* and a value below 1.0
C11_Witness ==
    /\ fn = "_calculate_overall_confidence"
    /\ arg.addresses # <<>>
    /\ arg.prices # <<>>
    /\ arg.patterns # <<>>
    /\ Len(arg.dates) = 2
    /\ arg.dates[1].confidence # arg.dates[2].confidence
    /\ val.num < 100 * val.den

\* C13: the category _infer_document_type returns as most_likely has the
\* maximum of the scores when that maximum is at least 0.3, and the
\* confidence is that maximum; otherwise most_likely is 'unknown' and the
\* confidence is 0.0. 'booking' is never returned, and 'unknown' is returned
\* exactly when the confidence is 0.0.
C13_MostLikely ==
    LET top == CHOOSE x \in {val.scores[t] : t \in DOMAIN val.scores} :
                   \A t \in DOMAIN val.scores : val.scores[t] <= x
    IN  fn = "_infer_document_type" =>
            /\ top >= 30 => (val.scores[val.most_likely] = top /\ val.confidence = top)
            /\ top < 30 => (val.most_likely = "unknown" /\ val.confidence = 0)
            /\ val.most_likely # "booking"
            /\ (val.most_likely = "unknown") <=> (val.confidence = 0)

\* three prices and nothing else: the receipt score is exactly 0.3
C13_Witness ==
    /\ fn = "_infer_document_type"
    /\ Len(arg.prices) = 3
    /\ arg.patterns = <<>>
    /\ val.most_likely = "receipt"
    /\ val.confidence = 30
    /\ val.scores.order = 20

CommonLength(scored) ==
    LET len(f) == IF scored[f] = <<>> THEN 1 ELSE Len(scored[f])
    IN  len("addresses") * len("dates") * len("prices") * len("patterns")

\* the sum of the average scores of the types of scored that have a
\* candidate, in units of 1 / CommonLength(scored)
SumOfAverages(scored) ==
    LET part(f) == IF scored[f] = <<>> THEN 0 ELSE (SumScore(scored[f]) * CommonLength(scored)) \div Len(scored[f])
    IN  part("addresses") + part("dates") + part("prices") + part("patterns")

\* C15: validate_results reports overall_score as the mean, over the types
\* that have at least one candidate, of the type's average validate_* score,
\* and 0.0 when no type has a candidate; overall_valid is true if and only
\* if overall_score >= 0.6.
C15_OverallValid ==
    LET present == {f \in DOMAIN arg : arg[f] # <<>>}
        k == Cardinality(present)
    IN  fn = "validate_results" =>
            /\ val.overall_score.den > 0
            /\ k > 0 => val.overall_score.num * CommonLength(arg) * k = SumOfAverages(arg) * val.overall_score.den
            /\ k = 0 => val.overall_score.num = 0
            /\ val.overall_valid <=> (val.overall_score.num >= 60 * val.overall_score.den)

\* C15, for results with a candidate of some type: overall_score is the mean
\* of the averages of the types present and overall_valid says whether it
\* is at least 0.6; with no candidate at all the score is 0.0 and
\* overall_valid is true
C15_ValidWhenScored ==
    LET present == {f \in DOMAIN arg : arg[f] # <<>>}
        k == Cardinality(present)
    IN  fn = "validate_results" =>
            /\ val.overall_score.den > 0
            /\ present # {} => val.overall_score.num * CommonLength(arg) * k = SumOfAverages(arg) * val.overall_score.den
            /\ present # {} => (val.overall_valid <=> (val.overall_score.num >= 60 * val.overall_score.den))
            /\ present = {} => (val.overall_valid /\ val.overall_score.num = 0)
            /\ DOMAIN val.component_validations = present

\* two types scored, one 0.4 and one 0.8: the mean is exactly 0.6
C15_Witness ==
    /\ fn = "validate_results"
    /\ arg.addresses = <<>>
    /\ arg.prices = <<>>
    /\ Len(arg.dates) = 1 /\ arg.dates[1].score = 40
    /\ Len(arg.patterns) = 2 /\ arg.patterns[1].score = 80 /\ arg.patterns[2].score = 80
    /\ val.overall_valid
    /\ val.overall_score.num = 60 * val.overall_score.den

(***************************************************************************)
(* Properties of calculate_totals (SpecCalls)                              *)
(***************************************************************************)

\* a Decimal of at most two decimal places, in hundredths
Hundredths(d) == d.digits * Pow10(d.exp + 2)

RECURSIVE SumHundredths(_)
SumHundredths(prices) ==
    IF prices = <<>> THEN 0 ELSE Hundredths(Head(prices).amount) + SumHundredths(Tail(prices))

\* the totals calculate_totals reported, each with the prices of its role:
\* one for all the prices, or one for each role when by_type is set
ReportedTotals ==
    IF arg.by_type /\ arg.prices # <<>>
    THEN { [total |-> val[t], among |-> SelectSeq(arg.prices, LAMBDA p : TypeOrUnknown(p) = t)] : t \in DOMAIN val }
    ELSE { [total |-> val, among |-> arg.prices] }

\* C16: calculate_totals never adds amounts of different currencies: every
\* reported total_amount is the sum of the amounts of exactly those input
\* prices (of that role when by_type is set) whose currency is the one
\* reported next to the total, and count is the number of those prices.
C16_OneCurrencyPerTotal ==
    fn = "calculate_totals" =>
        \A r \in ReportedTotals :
            LET same == SelectSeq(r.among, LAMBDA p : p.currency = r.total.currency)
            IN  /\ Hundredths(r.total.total_amount) = SumHundredths(same)
                /\ r.total.count = Len(same)

\* three prices without by_type, the second of another currency than the
\* first and the third: the total is the sum of the first and the third
C16_Witness ==
    /\ fn = "calculate_totals"
    /\ ~arg.by_type
    /\ Len(arg.prices) = 3
    /\ arg.prices[1].currency = "USD"
    /\ arg.prices[2].currency = "EUR"
    /\ arg.prices[3].currency = "USD"
    /\ arg.prices[1].amount.exp # arg.prices[3].amount.exp
    /\ val.currency = "USD"
    /\ val.count = 2
    /\ Hundredths(val.total_amount) = 2499

\* C17: calculate_totals reports a total for each currency present (among
\* the prices of one role when by_type is set), so that every input price
\* is included in the total of its own currency and none is left out of
\* all totals.
C17_EveryCurrencyTotalled ==
    fn = "calculate_totals" =>
        \A k \in DOMAIN arg.prices :
            \E r \in ReportedTotals :
                /\ \E j \in DOMAIN r.among : r.among[j] = arg.prices[k]
                /\ r.total.currency = arg.prices[k].currency

(***************************************************************************)
(* Properties of the extractors called with and without a context          *)
(* (SpecContext)                                                           *)
(***************************************************************************)

\* the identity of a candidate of the extractor applied: the deduplication
\* key of its type, the raw line for an address
KeysOf(cands) ==
    { CASE fn = "extract_addresses" -> cands[k].raw_text
        [] fn = "extract_dates" -> DayKey(cands[k])
        [] fn = "extract_prices" -> PriceKey(cands[k])
        [] fn = "extract_patterns" -> PatternKey(cands[k]) : k \in DOMAIN cands }

\* C18: context never creates a candidate: every candidate an extractor
\* returns when a context is supplied, identified by its deduplication key
\* (by its raw line for an address), is also returned when the context is
\* omitted.
C18_ContextAddsNothing ==
    fn \in {"extract_addresses", "extract_dates", "extract_prices", "extract_patterns"} =>
        KeysOf(val.given) \subseteq KeysOf(val.omitted)

\* C18, for the extractors of addresses, dates and patterns
C18_OtherExtractors ==
    fn \in {"extract_addresses", "extract_dates", "extract_patterns"} =>
        KeysOf(val.given) \subseteq KeysOf(val.omitted)

\* the matches of the regular expressions of every pattern type in a text,
\* each with its type and the value it captured
MatchedValues(t) ==
    UNION { UNION { { [pattern_type |-> PatternTypes[i], value |-> Group(t, FindIter(t, PatternRegexes(PatternTypes[i])[j])[n], 1)] :
                        n \in DOMAIN FindIter(t, PatternRegexes(PatternTypes[i])[j]) } :
                    j \in DOMAIN PatternRegexes(PatternTypes[i]) } :
            i \in DOMAIN PatternTypes }

\* C19: a regex match whose captured value fails a format validator of its
\* pattern type never appears in the output of extract_patterns, and it
\* causes no error: the matches whose values pass are still returned.
C19_InvalidMatchDropped ==
    fn = "extract_patterns" =>
        \A m \in MatchedValues(arg.text) :
            IF _validate_pattern_match(m.value, m.pattern_type)
            THEN \E k \in DOMAIN val.omitted :
                     PatternKey(val.omitted[k]) = <<m.pattern_type, _normalize_value(m.value, m.pattern_type)>>
            ELSE ~\E k \in DOMAIN val.omitted :
                     val.omitted[k].pattern_type = m.pattern_type /\ val.omitted[k].value = m.value

\* "0 pcs, 5 pcs": the quantity 0 fails the validator int(x) > 0 and is
\* dropped, the quantity 5 after it is returned
C19_Witness ==
    /\ fn = "extract_patterns"
    /\ arg.text = "0 pcs, 5 pcs"
    /\ [pattern_type |-> "quantity", value |-> "0"] \in MatchedValues(arg.text)
    /\ ~_validate_pattern_match("0", "quantity")
    /\ Len(val.omitted) = 1
    /\ val.omitted[1].pattern_type = "quantity"
    /\ val.omitted[1].value = "5"

(***************************************************************************)
(* Properties of process_text called with and without an extraction_config *)
(* (SpecConfig)                                                            *)
(***************************************************************************)

\* C20: the only effect of an extraction_config (a dict) on process_text is
\* the selection of pattern types: with extraction_config['patterns']['types']
\* = T every returned pattern has a type that is in T and registered, and is
\* a pattern returned without the config; with no T the patterns are those
\* of all nine types; and the addresses, dates and prices are the same as
\* with no extraction_config.
C20_OnlyPatternTypes ==
    fn = "process_text" =>
        LET cfg == arg.extraction_config
            registered == {PatternTypes[k] : k \in DOMAIN PatternTypes}
            named == {cfg.types[k] : k \in DOMAIN cfg.types}
            all == {val.omitted.patterns[k] : k \in DOMAIN val.omitted.patterns}
        IN  /\ val.given.addresses = val.omitted.addresses
            /\ val.given.dates = val.omitted.dates
            /\ val.given.prices = val.omitted.prices
            /\ (cfg.has_patterns /\ cfg.has_types) =>
                   /\ \A k \in DOMAIN val.given.patterns :
                          /\ val.given.patterns[k].pattern_type \in named \cap registered
                          /\ val.given.patterns[k] \in all
                   /\ \A x \in all : x.pattern_type \in named =>
                          \E k \in DOMAIN val.given.patterns : val.given.patterns[k] = x
            /\ ~(cfg.has_patterns /\ cfg.has_types) => val.given.patterns = val.omitted.patterns
            /\ Cardinality(registered) = 9

\* a text with an order id and an email, and a config that names a type
\* that is not registered and 'sku': only the sku is returned
C20_Witness ==
    /\ fn = "process_text"
    /\ arg.text = "ORD-123456 a@b.co"
    /\ arg.extraction_config = TypesConfig(<<"nosuch", "sku">>)
    /\ Len(val.given.patterns) = 1
    /\ val.given.patterns[1].pattern_type = "sku"
    /\ Len(val.omitted.patterns) > 2
    /\ val.given.prices = val.omitted.prices

(***************************************************************************)
(* Properties of _perform_cross_analysis (SpecCalls)                       *)
(***************************************************************************)

\* C21: cross_analysis contains 'potential_orders' if and only if the
\* patterns include an order_id pattern and the dates include a date typed
\* 'order'; its confidence is then the minimum of the mean confidence of
\* those patterns and the mean confidence of those dates.
C21_PotentialOrders ==
    fn = "_perform_cross_analysis" =>
        LET ids == {k \in DOMAIN arg.patterns : arg.patterns[k].pattern_type = "order_id"}
            days == {k \in DOMAIN arg.dates : arg.dates[k].date_type = "order"}
            id_sum == SumConfidence(SelectSeq(arg.patterns, LAMBDA p : p.pattern_type = "order_id"))
            day_sum == SumConfidence(SelectSeq(arg.dates, LAMBDA d : d.date_type = "order"))
            n == Cardinality(ids)
            m == Cardinality(days)
            \* the smaller of id_sum / n and day_sum / m, over the denominator n * m
            least == IF id_sum * m <= day_sum * n THEN id_sum * m ELSE day_sum * n
        IN  /\ ("potential_orders" \in DOMAIN val) <=> (ids # {} /\ days # {})
            /\ "potential_orders" \in DOMAIN val =>
                   /\ val.potential_orders.confidence.den > 0
                   /\ val.potential_orders.confidence.num * n * m = least * val.potential_orders.confidence.den
                   /\ Len(val.potential_orders.order_ids) = n
                   /\ Len(val.potential_orders.order_dates) = m

\* two order ids of mean confidence 0.75 and an order date of confidence
\* 0.85 next to a date of no type: the confidence is 0.75
C21_Witness ==
    /\ fn = "_perform_cross_analysis"
    /\ Len(arg.patterns) = 2
    /\ arg.patterns[1].pattern_type = "order_id" /\ arg.patterns[1].confidence = 60
    /\ arg.patterns[2].pattern_type = "order_id" /\ arg.patterns[2].confidence = 90
    /\ Len(arg.dates) = 2
    /\ arg.dates[1].date_type = None
    /\ arg.dates[2].date_type = "order" /\ arg.dates[2].confidence = 85
    /\ "potential_orders" \in DOMAIN val
    /\ val.potential_orders.confidence.num = 75 * val.potential_orders.confidence.den

(***************************************************************************)
(* Properties of the methods that read the results (SpecRead)              *)
(***************************************************************************)

\* Decimal(s) for s as str() writes a finite Decimal: digits with or without
\* a point, with or without an exponent
DecimalFromStr(s) ==
    LET e == FindChar(s, "E")
        mantissa == IF e = 0 THEN s ELSE SubSeq(s, 1, e - 1)
        exponent == IF e = 0 THEN 0 ELSE SignedIntOf(SubSeq(s, e + 1, Len(s)))
        dot == FindChar(mantissa, ".")
        places == IF dot = 0 THEN 0 ELSE Len(mantissa) - dot
    IN  [digits |-> DigitsValue(RemoveChars(mantissa, {"."})), exp |-> exponent - places]

\* C22: to_dict returns a map with exactly the keys addresses, dates,
\* prices, patterns, metadata and confidence, with one entry per candidate
\* in the order of the result; a date entry's parsed_date is the ISO-8601
\* string of the candidate's date, and a price entry's amount is the exact
\* decimal string of the candidate's amount: parsing it gives the amount.
C22_ToDict ==
    fn = "to_dict" =>
        /\ DOMAIN val = {"addresses", "dates", "prices", "patterns", "metadata", "confidence"}
        /\ val.addresses = arg.addresses
        /\ val.patterns = arg.patterns
        /\ val.metadata = arg.metadata
        /\ val.confidence = arg.confidence
        /\ DOMAIN val.dates = DOMAIN arg.dates
        /\ DOMAIN val.prices = DOMAIN arg.prices
        /\ \A k \in DOMAIN arg.dates :
               /\ val.dates[k].raw_text = arg.dates[k].raw_text
               /\ val.dates[k].confidence = arg.dates[k].confidence
               /\ Len(val.dates[k].parsed_date) = 19
               /\ SubSeq(val.dates[k].parsed_date, 11, 11) = "T"
               /\ DigitsValue(SubSeq(val.dates[k].parsed_date, 1, 4)) = arg.dates[k].parsed_date.year
               /\ DigitsValue(SubSeq(val.dates[k].parsed_date, 6, 7)) = arg.dates[k].parsed_date.month
               /\ DigitsValue(SubSeq(val.dates[k].parsed_date, 9, 10)) = arg.dates[k].parsed_date.day
               /\ DigitsValue(SubSeq(val.dates[k].parsed_date, 12, 13)) = arg.dates[k].parsed_date.hour
        /\ \A k \in DOMAIN arg.prices :
               /\ val.prices[k].raw_text = arg.prices[k].raw_text
               /\ val.prices[k].currency = arg.prices[k].currency
               /\ DecimalFromStr(val.prices[k].amount) = arg.prices[k].amount

\* the result of "1e-7" read with a price context: the amount is written
\* with an exponent, "1E-7"
C22_Witness ==
    /\ fn = "to_dict"
    /\ text = "1e-7"
    /\ Len(arg.prices) = 1
    /\ arg.prices[1].amount = [digits |-> 1, exp |-> -7]
    /\ val.prices[1].amount = "1E-7"

C24_PostalCandidate ==
    (/\ fn = "_extract_with_postal"
     /\ Len(arg.line) >= 10
     /\ _looks_like_address(arg.line)
     /\ Cardinality(arg.parsed) > 2)
    => /\ Len(val) = 1
       /\ val[1].confidence = _calculate_postal_confidence(DictOf(arg.parsed), arg.line)

(***************************************************************************)
(* Properties of the dates of DateExtractor.extract_dates (SpecContext)    *)
(***************************************************************************)
\* C25: without dateparser, a long-form or short-form month-name date in
\* the text ("January 25, 2024", "Jan 25, 2024") yields a date candidate
\* that resolves to that calendar day
C25_MonthNameDates ==
    (fn = "DateExtractor.extract_dates" /\ arg.date \in {"January 25, 2024", "Jan 25, 2024"})
    => \E k \in 1..Len(val.near) : DayKey(val.near[k]) = <<2024, 1, 25>>

\* a role keyword of some date type is in the lower-cased string
HasRoleKeyword(s) == \E k \in 1..Len(DateTypes) : AnyIn(DateContexts(DateTypes[k]), StrLower(s))

\* C26 as stated: with no caller context, a date with a role keyword in the
\* window around it scores higher than the same date with no keyword nearby
C26_WindowBonus ==
    (/\ fn = "DateExtractor.extract_dates"
     /\ arg.context = None
     /\ HasRoleKeyword(arg.prefix)
     /\ val.alone # <<>>)
    => /\ val.near # <<>>
       /\ val.near[1].confidence > val.alone[1].confidence

\* C26, amended: a date match receives the context bonus when a role
\* keyword appears in the caller's context; a keyword in the window of text
\* around the match sets only its date_type, so that the date scores the
\* same with the keyword in its window as with no keyword nearby
C26_ContextBonus ==
    fn = "DateExtractor.extract_dates"
    => /\ Len(val.near) = Len(val.alone)
       /\ Len(val.bare) = Len(val.alone)
       /\ \A k \in 1..Len(val.alone) :
              /\ val.near[k].confidence = val.alone[k].confidence
              /\ val.alone[k].confidence =
                     IF arg.context # None /\ HasRoleKeyword(arg.context)
                     THEN Min(val.bare[k].confidence + 10, 85)
                     ELSE val.bare[k].confidence

\* a date after "order date " with no caller context is typed order and
\* scores what the date alone scores; the same date with the caller's
\* context "Shipping price, order date" scores 0.10 more
C26_Witness ==
    /\ fn = "DateExtractor.extract_dates"
    /\ arg.date = "2024-01-15"
    /\ arg.prefix = "order date "
    /\ arg.context = "Shipping price, order date"
    /\ Len(val.near) = 1
    /\ val.near[1].date_type = "order"
    /\ val.bare[1].date_type = None
    /\ val.bare[1].confidence = 65
    /\ val.near[1].confidence = 75

(***************************************************************************)
(* Properties of validate_address (SpecCalls)                              *)
(***************************************************************************)
\* five digits, or five digits, a hyphen and four digits
FiveOrNineDigits(postal) ==
    \/ Len(postal) = 5 /\ IsDigitStr(postal)
    \/ /\ Len(postal) = 10
       /\ IsDigitStr(SubSeq(postal, 1, 5))
       /\ SubSeq(postal, 6, 6) = "-"
       /\ IsDigitStr(SubSeq(postal, 7, 10))

\* C27: validate_address scores 0.4 for a street component, 0.3 for a
\* city, 0.3 for a postal code, less 0.1 when the postal code is not five
\* or five-and-four digits, whatever the confidence of the address; the
\* address is valid exactly when the score is at least 0.6, and an address
\* with no components is invalid with an issue for each missing part
C27_ValidateAddress ==
    fn = "validate_address"
    => LET keys == DOMAIN arg.components
           street == keys \cap {"road", "street_name"} # {}
           city == "city" \in keys
           postal == keys \cap {"postcode", "postal_code"} # {}
           code == IF "postcode" \in keys THEN arg.components["postcode"]
                   ELSE IF "postal_code" \in keys THEN arg.components["postal_code"] ELSE ""
       IN  /\ val.score = (IF street THEN 40 ELSE 0) + (IF city THEN 30 ELSE 0) + (IF postal THEN 30 ELSE 0)
                          - (IF postal /\ ~FiveOrNineDigits(code) THEN 10 ELSE 0)
           /\ val.valid <=> val.score >= 60
           /\ \A c \in {30, 85} : validate_address([arg EXCEPT !.confidence = c]) = val
           /\ keys = {} => /\ ~val.valid
                           /\ val.issues = <<"Missing street information", "Missing city", "Missing postal code">>

\* an address of confidence 0.3 with a street and a malformed postal code
\* scores 0.4 + 0.3 - 0.1 and is valid
C27_Witness ==
    /\ fn = "validate_address"
    /\ arg.confidence = 30
    /\ DOMAIN arg.components = {"road", "postcode"}
    /\ arg.components["postcode"] = "12180-12"
    /\ val.score = 60
    /\ val.valid
    /\ val.issues = <<"Missing city", "Invalid postal code format">>

(***************************************************************************)
(* Properties of the confidences of the regex paths (SpecContext)          *)
(***************************************************************************)
\* C28: without the libraries, every date candidate and every price
\* candidate returned has a confidence of at most 0.85; every address
\* candidate has at most 0.85 before the context boost, and the boost of
\* 0.10 is added after that cap to every address of the call and capped at
\* 1.0, so that an address never exceeds 0.95
C28_RegexCaps ==
    /\ fn \in {"extract_dates", "extract_prices"}
       => /\ \A k \in 1..Len(val.given) : val.given[k].confidence <= 85
          /\ \A k \in 1..Len(val.omitted) : val.omitted[k].confidence <= 85
    /\ (fn = "extract_addresses" /\ ~postal_available)
       => /\ Len(val.given) = Len(val.omitted)
          /\ \A k \in 1..Len(val.omitted) :
                 /\ val.omitted[k].confidence <= 85
                 /\ val.given[k].raw_text = val.omitted[k].raw_text
                 /\ val.given[k].confidence =
                        Min(val.omitted[k].confidence
                            + (IF AnyIn(AddressContexts, StrLower(arg.context)) THEN 10 ELSE 0), 100)
                 /\ val.given[k].confidence <= 95

\* two addresses of one call with a shipping context: the line with six
\* components is capped at 0.85 and boosted to 0.95, the line with three
\* is boosted from 0.45 to 0.55
C28_Witness ==
    /\ fn = "extract_addresses"
    /\ ~postal_available
    /\ arg.context = "Shipping price, order date"
    /\ Len(val.given) = 2
    /\ Cardinality(DOMAIN val.omitted[1].components) = 6
    /\ val.omitted[1].confidence = 85
    /\ val.given[1].confidence = 95
    /\ val.omitted[2].confidence = 45
    /\ val.given[2].confidence = 55

(***************************************************************************)
(* Properties of the ties of _infer_document_type (SpecCalls)              *)
(***************************************************************************)
\* the document types that can score, in the order in which a tie between
\* them is resolved
TieOrder == <<"order", "invoice", "shipping", "receipt">>

\* C29: when several document types share the greatest score and that
\* score is at least 0.3, most_likely is the first of them in the order
\* order, invoice, shipping, receipt: an order_id pattern with an order date
\* (0.7) against an invoice pattern with an invoice date (0.7), with no
\* prices, gives order
C29_TieOrder ==
    (/\ fn = "_infer_document_type"
     /\ \E k \in 1..Len(TieOrder) : val.scores[TieOrder[k]] >= 30)
    => \E k \in 1..Len(TieOrder) :
          /\ val.most_likely = TieOrder[k]
          /\ \A j \in 1..Len(TieOrder) : val.scores[TieOrder[j]] <= val.scores[TieOrder[k]]
          /\ \A j \in 1..(k - 1) : val.scores[TieOrder[j]] < val.scores[TieOrder[k]]

\* order and invoice tie at 0.7 and the result is order
C29_Witness ==
    /\ fn = "_infer_document_type"
    /\ arg.patterns = <<"order_id", "invoice", "tracking">>
    /\ arg.dates = <<"order", "invoice">>
    /\ arg.prices = <<>>
    /\ val.scores.order = 70
    /\ val.scores.invoice = 70
    /\ val.most_likely = "order"
    /\ val.confidence = 70

(***************************************************************************)
(* Properties of the email candidates of extract_patterns (SpecContext)    *)
(***************************************************************************)
\* the "@" of the matched text is among its first 50 characters
AtSignNearStart(raw_text) == \E i \in 1..Min(Len(raw_text), 50) : SubSeq(raw_text, i, i) = "@"

\* the candidates are emails with the "@" near the start of the match, of
\* confidence 1.0
EmailsCertain(cands) ==
    \A k \in 1..Len(cands) :
        (cands[k].pattern_type = "email" /\ AtSignNearStart(cands[k].raw_text)) => cands[k].confidence = 100

\* C30: every email candidate of extract_patterns whose "@" lies within 50
\* characters after the start of the match has confidence exactly 1.0,
\* whatever the text around it and whatever the caller's context
C30_EmailCertain ==
    fn = "extract_patterns" => EmailsCertain(val.given) /\ EmailsCertain(val.omitted)

\* two emails of one text, with a context that names no email indicator
\* and with none: all four candidates have confidence 1.0
C30_Witness ==
    /\ fn = "extract_patterns"
    /\ arg.text = "mail Ann@Example.com or bob@x.org"
    /\ arg.context = "hello"
    /\ Len(SelectSeq(val.given, LAMBDA p : p.pattern_type = "email" /\ p.confidence = 100)) = 2
    /\ Len(SelectSeq(val.omitted, LAMBDA p : p.pattern_type = "email" /\ p.confidence = 100)) = 2
    /\ \E k \in 1..Len(val.omitted) : val.omitted[k].raw_text = "Ann@Example.com"

====
